---- MODULE Spec2Model ----
(***************************************************************************)
(* Certificate registry (contracts/CertificateRegistry.sol) and the        *)
(* issuance / verification routes of the backend (routes/certificate.js,   *)
(* utils/web3.js, utils/crypto.js, utils/ipfs.js, db/database.js).         *)
(*                                                                         *)
(* Strings are modelled as sequences (the empty string is << >>), so that  *)
(* bytes(s).length and s.startsWith(p) keep their meaning.  Addresses and  *)
(* 32-byte hashes are small naturals, 0 being address(0) / bytes32(0).     *)
(***************************************************************************)
EXTENDS Integers, Sequences, FiniteSets, TLC

\* ------------------------------------------------------------------ bounds
NumAddr == 2    \* externally owned accounts 1..NumAddr
NumHash == 2    \* non-zero document hashes 1..NumHash
NumCid  == 2    \* distinct non-empty CID strings a direct caller may pass
MaxTime == 2    \* block timestamps 1..MaxTime

\* ------------------------------------------------ values of the contract
ZeroAddress == 0
ZeroHash    == 0
Deployer    == 1    \* the first signer deploys the contract (scripts/deploy.js)

Addr    == 1 .. NumAddr              \* msg.sender is never address(0)
Address == {ZeroAddress} \cup Addr   \* any value of type address
Hash    == {ZeroHash} \cup (1 .. NumHash)   \* any value of type bytes32
Time    == 1 .. MaxTime

EmptyString == << >>
CidStrings  == {EmptyString} \cup {<<"Qm", i>> : i \in 1 .. NumCid}

\* struct Certificate and its zero value (what an unset mapping slot reads as)
Certificate(_docHash, _ipfsCID, _issuer, _timestamp, _exists) ==
    [docHash |-> _docHash, ipfsCID |-> _ipfsCID, issuer |-> _issuer,
     timestamp |-> _timestamp, exists |-> _exists]

ZeroCertificate == Certificate(ZeroHash, EmptyString, ZeroAddress, 0, FALSE)

\* revert reasons and custom errors
ErrNotAuthorizedIssuer == "Not an authorized issuer"
ErrInvalidIssuer       == "Invalid issuer address"
ErrAlreadyAuthorized   == "Issuer already authorized"
ErrIssuerNotAuthorized == "Issuer not authorized"
ErrInvalidHash         == "Invalid document hash"
ErrInvalidCID          == "Invalid IPFS CID"
ErrAlreadyExists       == "Certificate already exists"
ErrOwnableUnauthorized == "OwnableUnauthorizedAccount"
ErrOwnableInvalidOwner == "OwnableInvalidOwner"
Ok                     == "ok"

VARIABLES
    \* ---- contract storage
    owner,              \* Ownable._owner
    authorizedIssuers,  \* mapping(address => bool)
    certificates,       \* mapping(bytes32 => Certificate)
    \* ---- chain
    blockTimestamp,     \* block.timestamp of the latest block
    lastTx,             \* the latest call to the contract and its outcome
    \* ---- history (not program state)
    creator,            \* msg.sender of the constructor
    revokedIssuers,     \* issuers revoked after having issued a certificate
    issued,             \* per docHash, the arguments of the issue call that succeeded
    before,             \* the contract storage as it was before the latest call
    \* ---- backend process (set when it starts)
    web3Ready,          \* routes/certificate.js: initWeb3() succeeded
    signer,             \* utils/web3.js: the wallet of PRIVATE_KEY, or null
    USE_IPFS,           \* utils/ipfs.js: process.env.USE_IPFS === 'true'
    ipfsClient,         \* utils/ipfs.js: the client was created (not null)
    AES_ENCRYPTION_KEY, \* process.env.AES_ENCRYPTION_KEY
    \* ---- stores
    ipfsStorage,        \* the blobs the remote IPFS node holds
    localStorage,       \* the files of IPFS_STORAGE_PATH, in order of creation
    transactions,       \* the rows of the transactions table, in order of insertion
    \* ---- requests
    response,           \* the HTTP response on its way to the client, if any
    inflight,           \* the POST /issue requests that run side by side, each at an await
    \* ---- history (not program state)
    trace,              \* what the request of `response` met on its way
    receipts            \* per file, the issuance that was answered with success

ledgerState == [owner |-> owner, authorizedIssuers |-> authorizedIssuers,
                certificates |-> certificates]
contractVars == <<owner, authorizedIssuers, certificates>>
historyVars == <<lastTx, creator, revokedIssuers, issued, before>>
chainVars   == <<contractVars, blockTimestamp, historyVars>>
processVars == <<web3Ready, signer, USE_IPFS, ipfsClient, AES_ENCRYPTION_KEY>>
storeVars   == <<ipfsStorage, localStorage, transactions>>
requestVars == <<response, inflight, trace, receipts>>
backendVars == <<processVars, storeVars, requestVars>>
vars        == <<chainVars, backendVars>>

NoValue == "none"

\* what a call that returns nothing leaves in lastTx.ret
NoReturn == [exists |-> FALSE, ipfsCID |-> EmptyString, issuer |-> ZeroAddress,
             timestamp |-> 0]

NotIssued == [done |-> FALSE, sender |-> ZeroAddress, ipfsCID |-> EmptyString,
              timestamp |-> 0]

Tx(_op, _sender, _docHash, _ipfsCID, _account, _status, _event, _ret) ==
    [op |-> _op, sender |-> _sender, docHash |-> _docHash, ipfsCID |-> _ipfsCID,
     account |-> _account, status |-> _status, event |-> _event, ret |-> _ret]

\* ------------------------------------------------------------ modifiers
\* mutant: the owner must be an authorized issuer to act as owner
onlyOwner_AndIssuer(sender) == owner = sender /\ authorizedIssuers[sender]

onlyOwner(sender) == owner = sender

\* mutant: the owner may always issue, whatever its flag
onlyAuthorizedIssuer_OrOwner(sender) == authorizedIssuers[sender] \/ sender = owner

onlyAuthorizedIssuer(sender) == authorizedIssuers[sender]

\* ---------------------------------------------------------- constructor
\* mutant: the deployer is not made an authorized issuer
ConstructorInit_NoIssuer(deployer) ==
    /\ owner = deployer
    /\ authorizedIssuers = [a \in Address |-> FALSE]
    /\ certificates = [h \in Hash |-> ZeroCertificate]
    /\ blockTimestamp = 1

ConstructorInit(deployer) ==
    /\ owner = deployer
    /\ authorizedIssuers = [a \in Address |-> a = deployer]
    /\ certificates = [h \in Hash |-> ZeroCertificate]
    /\ blockTimestamp = 1

\* ------------------------------------------------- addAuthorizedIssuer
\* mutant: the "Already authorized" requirement is missing
addAuthorizedIssuerRevert_NoAlreadyCheck(sender, _issuer) ==
    IF ~onlyOwner(sender) THEN ErrOwnableUnauthorized
    ELSE IF _issuer = ZeroAddress THEN ErrInvalidIssuer
    ELSE Ok

\* mutant: the onlyOwner modifier is missing
addAuthorizedIssuerRevert_NoOnlyOwner(sender, _issuer) ==
    IF _issuer = ZeroAddress THEN ErrInvalidIssuer
    ELSE IF authorizedIssuers[_issuer] THEN ErrAlreadyAuthorized
    ELSE Ok

addAuthorizedIssuerRevert(sender, _issuer) ==
    IF ~onlyOwner(sender) THEN ErrOwnableUnauthorized
    ELSE IF _issuer = ZeroAddress THEN ErrInvalidIssuer
    ELSE IF authorizedIssuers[_issuer] THEN ErrAlreadyAuthorized
    ELSE Ok

\* mutant: the new issuer takes the place of the issuers there were
addAuthorizedIssuer_ReplacesIssuers(sender, _issuer, t) ==
    LET r == addAuthorizedIssuerRevert(sender, _issuer) IN
    /\ blockTimestamp' = IF r = Ok THEN t ELSE blockTimestamp
    /\ authorizedIssuers' = IF r = Ok THEN [a \in Address |-> a = _issuer]
                            ELSE authorizedIssuers
    /\ UNCHANGED <<owner, certificates>>

addAuthorizedIssuer(sender, _issuer, t) ==
    LET r == addAuthorizedIssuerRevert(sender, _issuer) IN
    /\ blockTimestamp' = IF r = Ok THEN t ELSE blockTimestamp
    /\ authorizedIssuers' = IF r = Ok THEN [authorizedIssuers EXCEPT ![_issuer] = TRUE]
                            ELSE authorizedIssuers
    /\ UNCHANGED <<owner, certificates>>

\* ---------------------------------------------- removeAuthorizedIssuer
\* mutant: the "Issuer not authorized" requirement is missing
removeAuthorizedIssuerRevert_NoTrustedCheck(sender, _issuer) ==
    IF ~onlyOwner(sender) THEN ErrOwnableUnauthorized
    ELSE Ok

removeAuthorizedIssuerRevert(sender, _issuer) ==
    IF ~onlyOwner(sender) THEN ErrOwnableUnauthorized
    ELSE IF ~authorizedIssuers[_issuer] THEN ErrIssuerNotAuthorized
    ELSE Ok

HasIssued(a) == \E h \in Hash : certificates[h].exists /\ certificates[h].issuer = a

\* mutant: revoking an issuer also deletes the certificates it issued
removeAuthorizedIssuer_Retroactive(sender, _issuer, t) ==
    LET r == removeAuthorizedIssuerRevert(sender, _issuer) IN
    /\ blockTimestamp' = IF r = Ok THEN t ELSE blockTimestamp
    /\ authorizedIssuers' = IF r = Ok THEN [authorizedIssuers EXCEPT ![_issuer] = FALSE]
                            ELSE authorizedIssuers
    /\ certificates' = IF r = Ok
                       THEN [h \in Hash |-> IF certificates[h].issuer = _issuer
                                            THEN ZeroCertificate ELSE certificates[h]]
                       ELSE certificates
    /\ UNCHANGED owner

removeAuthorizedIssuer(sender, _issuer, t) ==
    LET r == removeAuthorizedIssuerRevert(sender, _issuer) IN
    /\ blockTimestamp' = IF r = Ok THEN t ELSE blockTimestamp
    /\ authorizedIssuers' = IF r = Ok THEN [authorizedIssuers EXCEPT ![_issuer] = FALSE]
                            ELSE authorizedIssuers
    /\ UNCHANGED <<owner, certificates>>

\* ---------------------------------------------------- issueCertificate
\* mutant: the "Invalid IPFS CID" requirement is missing
issueCertificateRevert_NoCIDCheck(sender, _docHash, _ipfsCID) ==
    IF ~onlyAuthorizedIssuer(sender) THEN ErrNotAuthorizedIssuer
    ELSE IF _docHash = ZeroHash THEN ErrInvalidHash
    ELSE IF certificates[_docHash].exists THEN ErrAlreadyExists
    ELSE Ok

\* mutant: the "Certificate already exists" requirement is missing
issueCertificateRevert_NoDuplicateCheck(sender, _docHash, _ipfsCID) ==
    IF ~onlyAuthorizedIssuer(sender) THEN ErrNotAuthorizedIssuer
    ELSE IF _docHash = ZeroHash THEN ErrInvalidHash
    ELSE IF ~(Len(_ipfsCID) > 0) THEN ErrInvalidCID
    ELSE Ok

\* mutant: a duplicate is rejected only when it carries the same CID
issueCertificateRevert_DuplicateOnlySameCID(sender, _docHash, _ipfsCID) ==
    IF ~onlyAuthorizedIssuer(sender) THEN ErrNotAuthorizedIssuer
    ELSE IF _docHash = ZeroHash THEN ErrInvalidHash
    ELSE IF ~(Len(_ipfsCID) > 0) THEN ErrInvalidCID
    ELSE IF certificates[_docHash].exists /\ certificates[_docHash].ipfsCID = _ipfsCID
         THEN ErrAlreadyExists
    ELSE Ok

\* mutant: the "Certificate already exists" requirement comes before the
\* "Invalid IPFS CID" requirement
issueCertificateRevert_DuplicateFirst(sender, _docHash, _ipfsCID) ==
    IF ~onlyAuthorizedIssuer(sender) THEN ErrNotAuthorizedIssuer
    ELSE IF _docHash = ZeroHash THEN ErrInvalidHash
    ELSE IF certificates[_docHash].exists THEN ErrAlreadyExists
    ELSE IF ~(Len(_ipfsCID) > 0) THEN ErrInvalidCID
    ELSE Ok

\* mutant: an issuer may write over a record of its own
issueCertificateRevert_DuplicateOnlyOtherIssuer(sender, _docHash, _ipfsCID) ==
    IF ~onlyAuthorizedIssuer(sender) THEN ErrNotAuthorizedIssuer
    ELSE IF _docHash = ZeroHash THEN ErrInvalidHash
    ELSE IF ~(Len(_ipfsCID) > 0) THEN ErrInvalidCID
    ELSE IF certificates[_docHash].exists /\ certificates[_docHash].issuer # sender
         THEN ErrAlreadyExists
    ELSE Ok

issueCertificateRevert(sender, _docHash, _ipfsCID) ==
    IF ~onlyAuthorizedIssuer(sender) THEN ErrNotAuthorizedIssuer
    ELSE IF _docHash = ZeroHash THEN ErrInvalidHash
    ELSE IF ~(Len(_ipfsCID) > 0) THEN ErrInvalidCID
    ELSE IF certificates[_docHash].exists THEN ErrAlreadyExists
    ELSE Ok

\* mutant: the record names the owner, not msg.sender, as issuer
issueCertificateStore_OwnerAsIssuer(sender, _docHash, _ipfsCID, t) ==
    Certificate(_docHash, _ipfsCID, owner, t, TRUE)

\* mutant: the record's docHash field is left unset
issueCertificateStore_NoDocHash(sender, _docHash, _ipfsCID, t) ==
    Certificate(ZeroHash, _ipfsCID, sender, t, TRUE)

issueCertificateStore(sender, _docHash, _ipfsCID, t) ==
    Certificate(_docHash, _ipfsCID, sender, t, TRUE)

issueCertificate(sender, _docHash, _ipfsCID, t) ==
    LET r == issueCertificateRevert(sender, _docHash, _ipfsCID) IN
    /\ blockTimestamp' = IF r = Ok THEN t ELSE blockTimestamp
    /\ certificates' = IF r = Ok
                       THEN [certificates EXCEPT
                                ![_docHash] = issueCertificateStore(sender, _docHash, _ipfsCID, t)]
                       ELSE certificates
    /\ UNCHANGED <<owner, authorizedIssuers>>

\* ------------------------------------------------------------- views
\* mutant: the issuer returned is the owner
verifyCertificate_OwnerAsIssuer(_docHash) ==
    LET cert == certificates[_docHash] IN
    [exists |-> cert.exists, ipfsCID |-> cert.ipfsCID, issuer |-> owner,
     timestamp |-> cert.timestamp]

verifyCertificate(_docHash) ==
    LET cert == certificates[_docHash] IN
    [exists |-> cert.exists, ipfsCID |-> cert.ipfsCID, issuer |-> cert.issuer,
     timestamp |-> cert.timestamp]

getCertificate(_docHash) == certificates[_docHash]

isAuthorizedIssuer(_issuer) == authorizedIssuers[_issuer]

\* a view call (eth_call): no transaction, no block, no state change
callVerifyCertificate(sender, _docHash) ==
    UNCHANGED <<contractVars, blockTimestamp>>

\* ------------------------------------- inherited from Ownable (import)
\* mutant: the onlyOwner modifier is missing
transferOwnershipRevert_NoOnlyOwner(sender, newOwner) ==
    IF newOwner = ZeroAddress THEN ErrOwnableInvalidOwner
    ELSE Ok

transferOwnershipRevert(sender, newOwner) ==
    IF ~onlyOwner(sender) THEN ErrOwnableUnauthorized
    ELSE IF newOwner = ZeroAddress THEN ErrOwnableInvalidOwner
    ELSE Ok

transferOwnership(sender, newOwner, t) ==
    LET r == transferOwnershipRevert(sender, newOwner) IN
    /\ blockTimestamp' = IF r = Ok THEN t ELSE blockTimestamp
    /\ owner' = IF r = Ok THEN newOwner ELSE owner
    /\ UNCHANGED <<authorizedIssuers, certificates>>

renounceOwnershipRevert(sender) ==
    IF ~onlyOwner(sender) THEN ErrOwnableUnauthorized ELSE Ok

renounceOwnership(sender, t) ==
    LET r == renounceOwnershipRevert(sender) IN
    /\ blockTimestamp' = IF r = Ok THEN t ELSE blockTimestamp
    /\ owner' = IF r = Ok THEN ZeroAddress ELSE owner
    /\ UNCHANGED <<authorizedIssuers, certificates>>

\* ======================================================================
\* The backend: utils/crypto.js, utils/ipfs.js, utils/web3.js,
\* utils/database.js and routes/certificate.js
\* ======================================================================
NumKey        == 2      \* values of AES_ENCRYPTION_KEY
NumIv         == 1      \* values crypto.randomBytes(16) draws the IV from
MaxLocalFiles == 1      \* files the local storage directory has room for

Null   == 0             \* let signer = null
NoFile == 0             \* req.file is undefined
Keys   == 1 .. NumKey
IVs    == 1 .. NumIv
Files  == 1 .. NumHash  \* the file buffers a client uploads

\* ------------------------------------------------------------------ JSON
\* A string is a sequence; the empty string is << >>.  An object is a
\* function from its keys; a JSON text lists the <<key, value>> pairs in the
\* order the object's literal names them.
RECURSIVE SelectKeys(_, _)
SelectKeys(order, obj) ==
    IF order = << >> THEN << >>
    ELSE IF Head(order) \in DOMAIN obj
         THEN <<Head(order)>> \o SelectKeys(Tail(order), obj)
         ELSE SelectKeys(Tail(order), obj)

JSONstringify(obj, order) ==
    LET keys == SelectKeys(order, obj) IN [i \in 1 .. Len(keys) |-> <<keys[i], obj[keys[i]]>>]

JSONparse(text) ==
    [k \in {text[i][1] : i \in DOMAIN text} |->
        text[CHOOSE i \in DOMAIN text : text[i][1] = k][2]]

\* ------------------------------------------------------- utils/crypto.js
\* SHA-256: no two of the files share a digest, and no digest is zero
hashDocument(fileBuffer) == NumHash + 1 - fileBuffer

hashDocumentForBlockchain(fileBuffer) == <<"0x", hashDocument(fileBuffer)>>

\* ethers encodes the 0x-prefixed hex string as the bytes32 argument
toBytes32(hex) == hex[2]

MetadataFields ==
    <<"studentName", "courseName", "institution", "issueDate", "grade", "additionalInfo">>

BlobFields == <<"encrypted", "iv", "algorithm">>

\* AES-256-CBC under sha256(key) and iv: the ciphertext opens with that key
\* and that iv and with no other
AES256CBC(plaintext, key, iv) == [plaintext |-> plaintext, key |-> key, iv |-> iv]

encryptMetadata(data, key, iv) ==
    [encrypted |-> AES256CBC(JSONstringify(data, MetadataFields), key, iv),
     iv        |-> iv,
     algorithm |-> "aes-256-cbc"]

\* the decrypted object, or nothing when decipher.final or JSON.parse throws
decryptMetadata(encryptedData, ivHex, key) ==
    IF encryptedData.key = key /\ encryptedData.iv = ivHex
    THEN {JSONparse(encryptedData.plaintext)}
    ELSE {}

\* --------------------------------------------------------- the requests
\* the form bodies of POST /issue
Bodies ==
    << [studentName |-> <<"Ada">>, courseName |-> <<"Logic">>, institution |-> <<"MIT">>,
        grade |-> <<"A">>, additionalInfo |-> << >>, email |-> <<"ada@mit">>],
       [courseName |-> <<"Logic">>, institution |-> <<"MIT">>],
       [studentName |-> <<"Ada">>, courseName |-> <<"Logic">>, institution |-> << >>] >>

NoBody == 0

\* const metadata = { studentName: req.body.studentName, ... }: a field the
\* body lacks is undefined, and JSON.stringify leaves it out
ExtractMetadata(body) ==
    [k \in {MetadataFields[i] : i \in DOMAIN MetadataFields} \cap DOMAIN body |-> body[k]]

\* !metadata.k: undefined or the empty string
Falsy(metadata, k) == k \notin DOMAIN metadata \/ metadata[k] = << >>

\* --------------------------------------------------------- utils/ipfs.js
\* the CID of a content: one per content, and none of the CIDs that other
\* clients of the registry make up
ContentId(jsonData) ==
    LET data == JSONparse(jsonData)
        c    == data["encrypted"]
        n    == CHOOSE i \in DOMAIN Bodies :
                    JSONstringify(ExtractMetadata(Bodies[i]), MetadataFields) = c.plaintext
    IN  NumCid + n + Len(Bodies) * ((c.key - 1) + NumKey * (c.iv - 1))

startsWith(cid, prefix) == Len(cid) > 0 /\ cid[1] = prefix

\* the file name, and the directory with the file in it; nothing when
\* mkdir or writeFile throws
saveToLocalStorage(data, localUp) ==
    IF localUp /\ Len(localStorage) < MaxLocalFiles
    THEN [ok |-> TRUE, path |-> <<"local-", Len(localStorage) + 1>>,
          ipfs |-> ipfsStorage,
          local |-> Append(localStorage, JSONstringify(data, BlobFields)),
          calls |-> <<[to |-> "local", ok |-> TRUE]>>]
    ELSE [ok |-> FALSE, path |-> EmptyString, ipfs |-> ipfsStorage, local |-> localStorage,
          calls |-> <<[to |-> "local", ok |-> FALSE]>>]

\* mutant: a failed ipfsClient.add fails the upload
uploadToIPFS_NoFallback(data, remoteUp, localUp) ==
    LET jsonData == JSONstringify(data, BlobFields)
        saved    == saveToLocalStorage(data, localUp)
    IN
    IF USE_IPFS /\ ipfsClient
    THEN IF remoteUp
         THEN [ok |-> TRUE, path |-> <<"Qm", ContentId(jsonData)>>,
               ipfs |-> ipfsStorage \cup {jsonData}, local |-> localStorage,
               calls |-> <<[to |-> "remote", ok |-> TRUE]>>]
         ELSE [ok |-> FALSE, path |-> EmptyString, ipfs |-> ipfsStorage,
               local |-> localStorage, calls |-> <<[to |-> "remote", ok |-> FALSE]>>]
    ELSE saved

\* the reference returned, the two stores afterwards, and the calls made to
\* the backends in their order; ok is FALSE when uploadToIPFS throws
uploadToIPFS(data, remoteUp, localUp) ==
    LET jsonData == JSONstringify(data, BlobFields)
        saved    == saveToLocalStorage(data, localUp)
    IN
    IF USE_IPFS /\ ipfsClient
    THEN IF remoteUp
         THEN [ok |-> TRUE, path |-> <<"Qm", ContentId(jsonData)>>,
               ipfs |-> ipfsStorage \cup {jsonData}, local |-> localStorage,
               calls |-> <<[to |-> "remote", ok |-> TRUE]>>]
         ELSE [saved EXCEPT !.calls = <<[to |-> "remote", ok |-> FALSE]>> \o @]
    ELSE saved

\* the object read, or nothing when readFile or JSON.parse throws
retrieveFromLocalStorage(filename, localUp) ==
    IF localUp /\ startsWith(filename, "local-") /\ filename[2] \in 1 .. Len(localStorage)
    THEN {JSONparse(localStorage[filename[2]])}
    ELSE {}

\* mutant: with the remote backend enabled every reference is read from it
retrieveFromIPFS_NoPrefixCheck(cid, remoteUp, localUp) ==
    IF USE_IPFS /\ ipfsClient
    THEN IF remoteUp
         THEN {JSONparse(d) : d \in {x \in ipfsStorage : ContentId(x) = cid[2]}}
         ELSE {}
    ELSE retrieveFromLocalStorage(cid, localUp)

\* mutant: only the remote backend is ever read
retrieveFromIPFS_RemoteOnly(cid, remoteUp, localUp) ==
    IF remoteUp /\ ~startsWith(cid, "local-")
    THEN {JSONparse(d) : d \in {x \in ipfsStorage : ContentId(x) = cid[2]}}
    ELSE {}

retrieveFromIPFS(cid, remoteUp, localUp) ==
    IF USE_IPFS /\ ipfsClient /\ ~startsWith(cid, "local-")
    THEN IF remoteUp
         THEN {JSONparse(d) : d \in {x \in ipfsStorage : ContentId(x) = cid[2]}}
         ELSE {}
    ELSE retrieveFromLocalStorage(cid, localUp)

\* ------------------------------------------------------ utils/database.js
\* db.run(INSERT ...): the table with the row, or nothing when it fails
\* (txHash is UNIQUE)
\* mutant: the insert resolves without a row being written
insertTransaction_Dropped(transaction, dbUp) == {transactions}

insertTransaction(transaction, dbUp) ==
    IF dbUp /\ \A i \in DOMAIN transactions : transactions[i].txHash # transaction.txHash
    THEN {Append(transactions, transaction)}
    ELSE {}

\* the values of the status column: the one POST /issue writes and the
\* column's default
Statuses == {"confirmed", "pending"}

\* mutant: the UPDATE writes the key it was given over the row's docHash
updateTransactionStatus_RewritesRow(txHash, status, dbUp) ==
    IF dbUp
    THEN [i \in DOMAIN transactions |->
             IF transactions[i].txHash = txHash
             THEN [transactions[i] EXCEPT !.status = status, !.docHash = txHash]
             ELSE transactions[i]]
    ELSE transactions

\* db.run(UPDATE transactions SET status = ? WHERE txHash = ?): the table
\* afterwards, which is the table as it was when the statement fails
updateTransactionStatus(txHash, status, dbUp) ==
    IF dbUp
    THEN [i \in DOMAIN transactions |->
             IF transactions[i].txHash = txHash
             THEN [transactions[i] EXCEPT !.status = status]
             ELSE transactions[i]]
    ELSE transactions

\* ---------------------------------------------------------- utils/web3.js
\* the hash of the signed transaction
TransactionHash(from, docHash) == <<"0x", from, docHash>>

\* result.timestamp.toString()
toString(n) == <<n>>

\* initWeb3: the provider answers or not, PRIVATE_KEY is set or not (the
\* contract is deployed and its deployment files are in place)
initWeb3(networkUp, privateKey) ==
    [ready  |-> networkUp,
     signer |-> IF networkUp THEN privateKey ELSE Null]

initIPFS(useIpfs, created) == useIpfs /\ created

\* mutant: a write that the contract refuses as a duplicate counts as done
web3_issueCertificateResult_DuplicateIsOk(docHash, ipfsCID, rpc) ==
    IF signer = Null THEN "Contract not initialized or no signer available"
    ELSE IF rpc = "down" THEN "Failed to issue certificate: network"
    ELSE LET r == issueCertificateRevert(signer, toBytes32(docHash), ipfsCID) IN
         IF r # Ok /\ r # ErrAlreadyExists THEN r
         ELSE IF rpc = "lost" THEN "Failed to issue certificate: receipt"
         ELSE Ok

\* mutant: the wrapper returns the receipt of a transaction that reverted
web3_issueCertificateResult_IgnoresRevert(docHash, ipfsCID, rpc) ==
    IF signer = Null THEN "Contract not initialized or no signer available"
    ELSE IF rpc = "down" THEN "Failed to issue certificate: network"
    ELSE IF rpc = "lost" THEN "Failed to issue certificate: receipt"
    ELSE Ok

\* "ok", or the error the wrapper throws
web3_issueCertificateResult(docHash, ipfsCID, rpc) ==
    IF signer = Null THEN "Contract not initialized or no signer available"
    ELSE IF rpc = "down" THEN "Failed to issue certificate: network"
    ELSE LET r == issueCertificateRevert(signer, toBytes32(docHash), ipfsCID) IN
         IF r # Ok THEN r
         ELSE IF rpc = "lost" THEN "Failed to issue certificate: receipt"
         ELSE Ok

web3_verifyCertificate(docHash, rpcUp) ==
    LET result == verifyCertificate(toBytes32(docHash)) IN
    [ok |-> rpcUp, exists |-> result.exists, ipfsCID |-> result.ipfsCID,
     issuer |-> result.issuer, timestamp |-> toString(result.timestamp)]

\* the struct as ethers returns it: bytes32 as a 0x string
web3_getCertificate(docHash, rpcUp) ==
    LET cert == getCertificate(toBytes32(docHash)) IN
    [ok |-> rpcUp, docHash |-> <<"0x", cert.docHash>>, ipfsCID |-> cert.ipfsCID,
     issuer |-> cert.issuer, timestamp |-> toString(cert.timestamp),
     exists |-> cert.exists]

getSignerAddress == signer

\* ------------------------------------------------- routes/certificate.js
NoResponse ==
    [route |-> NoValue, status |-> 0, error |-> NoValue, success |-> FALSE, valid |-> FALSE,
     exists |-> FALSE, docHash |-> EmptyString, ipfsCID |-> EmptyString, issuer |-> Null,
     timestamp |-> EmptyString, metadata |-> {}, transactionHash |-> EmptyString]

ErrorResponse(route, status, error) ==
    [NoResponse EXCEPT !.route = route, !.status = status, !.error = error]

\* what a handler did on the way to its answer: the file it was given, the
\* calls its upload made and the remote store the upload found, the outcome
\* of the ledger write and of the audit insert, the outcome of the fetch
NoTrace ==
    [file |-> NoFile, body |-> NoBody, fetch |-> NoValue, holderUp |-> FALSE,
     calls |-> << >>, path |-> EmptyString, remote |-> {},
     ledger |-> NoValue, mirror |-> NoValue]

NoReceipt == [done |-> FALSE, body |-> NoBody, key |-> Null, ipfsCID |-> EmptyString]

\* mutant: the metadata is not validated
issueRejection_NoMetadataCheck(file, b) ==
    IF ~web3Ready THEN ErrorResponse("issue", 503, "Web3 not initialized")
    ELSE IF file = NoFile THEN ErrorResponse("issue", 400, "No certificate file provided")
    ELSE NoResponse

\* the answer of POST /issue that is sent before anything is stored
issueRejection(file, b) ==
    LET metadata == ExtractMetadata(Bodies[b]) IN
    IF ~web3Ready THEN ErrorResponse("issue", 503, "Web3 not initialized")
    ELSE IF file = NoFile THEN ErrorResponse("issue", 400, "No certificate file provided")
    ELSE IF \/ Falsy(metadata, "studentName")
            \/ Falsy(metadata, "courseName")
            \/ Falsy(metadata, "institution")
    THEN ErrorResponse("issue", 400, "Missing required metadata fields")
    ELSE NoResponse

\* mutant: the blob of a request whose ledger write failed is removed
issueHandler_RollsBack(file, b, iv, remoteUp, localUp, rpc, t, dbUp, end) ==
    LET metadata      == ExtractMetadata(Bodies[b])
        docHash       == hashDocumentForBlockchain(file)
        encryptedData == encryptMetadata(metadata, AES_ENCRYPTION_KEY, iv)
        stored        == uploadToIPFS(encryptedData, remoteUp, localUp)
        ipfsCID       == stored.path
        issuing       == web3_issueCertificateResult(docHash, ipfsCID, rpc)
        txHash        == TransactionHash(signer, toBytes32(docHash))
        issuerAddress == getSignerAddress
        inserted      == insertTransaction([txHash  |-> txHash,
                                            docHash |-> docHash,
                                            ipfsCID |-> ipfsCID,
                                            issuer  |-> issuerAddress,
                                            status  |-> "confirmed"], dbUp)
        failure       == ErrorResponse("issue", 500, "Failed to issue certificate")
    IN
    /\ IF issueRejection(file, b) # NoResponse
       THEN /\ response' = issueRejection(file, b)
            /\ UNCHANGED <<contractVars, blockTimestamp, storeVars, receipts>>
       ELSE IF ~stored.ok
       THEN /\ response' = failure
            /\ UNCHANGED <<contractVars, blockTimestamp, storeVars, receipts>>
       ELSE /\ ipfsStorage' = IF end = "sent" /\ issuing # Ok THEN ipfsStorage ELSE stored.ipfs
            /\ localStorage' = IF end = "sent" /\ issuing # Ok THEN localStorage
                               ELSE stored.local
            /\ IF end = "ledger" \/ signer = Null \/ rpc = "down"
               THEN UNCHANGED <<contractVars, blockTimestamp>>
               ELSE issueCertificate(signer, toBytes32(docHash), ipfsCID, t)
            /\ IF end = "ledger"
               THEN /\ response' = NoResponse
                    /\ UNCHANGED <<transactions, receipts>>
               ELSE IF issuing # Ok
               THEN /\ response' = failure
                    /\ UNCHANGED <<transactions, receipts>>
               ELSE IF end = "database"
               THEN /\ response' = NoResponse
                    /\ UNCHANGED <<transactions, receipts>>
               ELSE IF inserted = {}
               THEN /\ response' = failure
                    /\ UNCHANGED <<transactions, receipts>>
               ELSE /\ transactions' \in inserted
                    /\ response' = [NoResponse EXCEPT
                                       !.route = "issue", !.status = 200, !.success = TRUE,
                                       !.docHash = docHash, !.ipfsCID = ipfsCID,
                                       !.transactionHash = txHash,
                                       !.issuer = issuerAddress]
                    /\ receipts' = [receipts EXCEPT ![file] =
                                       [done |-> TRUE, body |-> b,
                                        key |-> AES_ENCRYPTION_KEY, ipfsCID |-> ipfsCID]]
    /\ trace' = IF response' = NoResponse THEN NoTrace
                ELSE IF issueRejection(file, b) # NoResponse
                THEN [NoTrace EXCEPT !.file = file, !.body = b]
                ELSE [NoTrace EXCEPT
                         !.file = file,
                         !.body = b,
                         !.calls = stored.calls,
                         !.path = stored.path,
                         !.remote = ipfsStorage,
                         !.ledger = IF stored.ok THEN issuing ELSE NoValue,
                         !.mirror = IF ~stored.ok \/ issuing # Ok THEN NoValue
                                    ELSE IF inserted = {} THEN "failed" ELSE "ok"]
    /\ UNCHANGED <<processVars, historyVars, inflight>>

\* POST /issue.  end is where the handler ends: with the answer ("sent"),
\* or with the process killed while it awaits the ledger or the database
issueHandler(file, b, iv, remoteUp, localUp, rpc, t, dbUp, end) ==
    LET metadata      == ExtractMetadata(Bodies[b])
        docHash       == hashDocumentForBlockchain(file)
        encryptedData == encryptMetadata(metadata, AES_ENCRYPTION_KEY, iv)
        stored        == uploadToIPFS(encryptedData, remoteUp, localUp)
        ipfsCID       == stored.path
        issuing       == web3_issueCertificateResult(docHash, ipfsCID, rpc)
        txHash        == TransactionHash(signer, toBytes32(docHash))
        issuerAddress == getSignerAddress
        inserted      == insertTransaction([txHash  |-> txHash,
                                            docHash |-> docHash,
                                            ipfsCID |-> ipfsCID,
                                            issuer  |-> issuerAddress,
                                            status  |-> "confirmed"], dbUp)
        failure       == ErrorResponse("issue", 500, "Failed to issue certificate")
    IN
    /\ IF issueRejection(file, b) # NoResponse
       THEN /\ response' = issueRejection(file, b)
            /\ UNCHANGED <<contractVars, blockTimestamp, storeVars, receipts>>
       ELSE IF ~stored.ok
       THEN /\ response' = failure
            /\ UNCHANGED <<contractVars, blockTimestamp, storeVars, receipts>>
       ELSE /\ ipfsStorage' = stored.ipfs
            /\ localStorage' = stored.local
            /\ IF end = "ledger" \/ signer = Null \/ rpc = "down"
               THEN UNCHANGED <<contractVars, blockTimestamp>>
               ELSE issueCertificate(signer, toBytes32(docHash), ipfsCID, t)
            /\ IF end = "ledger"
               THEN /\ response' = NoResponse
                    /\ UNCHANGED <<transactions, receipts>>
               ELSE IF issuing # Ok
               THEN /\ response' = failure
                    /\ UNCHANGED <<transactions, receipts>>
               ELSE IF end = "database"
               THEN /\ response' = NoResponse
                    /\ UNCHANGED <<transactions, receipts>>
               ELSE IF inserted = {}
               THEN /\ response' = failure
                    /\ UNCHANGED <<transactions, receipts>>
               ELSE /\ transactions' \in inserted
                    /\ response' = [NoResponse EXCEPT
                                       !.route = "issue", !.status = 200, !.success = TRUE,
                                       !.docHash = docHash, !.ipfsCID = ipfsCID,
                                       !.transactionHash = txHash,
                                       !.issuer = issuerAddress]
                    /\ receipts' = [receipts EXCEPT ![file] =
                                       [done |-> TRUE, body |-> b,
                                        key |-> AES_ENCRYPTION_KEY, ipfsCID |-> ipfsCID]]
    /\ trace' = IF response' = NoResponse THEN NoTrace
                ELSE IF issueRejection(file, b) # NoResponse
                THEN [NoTrace EXCEPT !.file = file, !.body = b]
                ELSE [NoTrace EXCEPT
                         !.file = file,
                         !.body = b,
                         !.calls = stored.calls,
                         !.path = stored.path,
                         !.remote = ipfsStorage,
                         !.ledger = IF stored.ok THEN issuing ELSE NoValue,
                         !.mirror = IF ~stored.ok \/ issuing # Ok THEN NoValue
                                    ELSE IF inserted = {} THEN "failed" ELSE "ok"]
    /\ UNCHANGED <<processVars, historyVars, inflight>>

\* POST /issue await by await, for requests that run side by side: a
\* request is at the await its pc names, with the handler's locals
NumRequests == 2
Requests == 1 .. NumRequests

NoRequest ==
    [pc |-> "idle", file |-> NoFile, body |-> NoBody, iv |-> Null,
     ipfsCID |-> EmptyString, mined |-> NoValue, response |-> NoResponse]

\* the request arrives; the handler runs to its first await: the checks,
\* the hash of the file and the encryption of the metadata
issueReceived(r, file, b, iv) ==
    /\ inflight[r].pc = "idle"
    /\ inflight' = [inflight EXCEPT ![r] =
           IF issueRejection(file, b) # NoResponse
           THEN [NoRequest EXCEPT !.pc = "done", !.file = file, !.body = b,
                                  !.response = issueRejection(file, b)]
           ELSE [NoRequest EXCEPT !.pc = "uploadToIPFS", !.file = file, !.body = b,
                                  !.iv = iv]]
    /\ UNCHANGED <<chainVars, processVars, storeVars, response, trace, receipts>>

\* await uploadToIPFS(...) ends
issueUploaded(r, remoteUp, localUp) ==
    LET q             == inflight[r]
        encryptedData == encryptMetadata(ExtractMetadata(Bodies[q.body]),
                                         AES_ENCRYPTION_KEY, q.iv)
        stored        == uploadToIPFS(encryptedData, remoteUp, localUp)
    IN
    /\ q.pc = "uploadToIPFS"
    /\ ipfsStorage' = stored.ipfs
    /\ localStorage' = stored.local
    /\ inflight' = [inflight EXCEPT ![r] =
           IF stored.ok
           THEN [q EXCEPT !.pc = "issueCertificate", !.ipfsCID = stored.path]
           ELSE [q EXCEPT !.pc = "done",
                          !.response = ErrorResponse("issue", 500,
                                                     "Failed to issue certificate")]]
    /\ UNCHANGED <<chainVars, processVars, transactions, response, trace, receipts>>

\* await issueCertificate(docHash, ipfsCID) ends: the transaction was
\* executed by the contract or never reached it, and tx.wait() gave the
\* receipt or threw; mined is the outcome of the execution
issueWritten(r, rpc, t) ==
    LET q        == inflight[r]
        docHash  == hashDocumentForBlockchain(q.file)
        issuing  == web3_issueCertificateResult(docHash, q.ipfsCID, rpc)
        executed == signer # Null /\ rpc # "down"
    IN
    /\ q.pc = "issueCertificate"
    /\ IF executed
       THEN issueCertificate(signer, toBytes32(docHash), q.ipfsCID, t)
       ELSE UNCHANGED <<contractVars, blockTimestamp>>
    /\ inflight' = [inflight EXCEPT ![r] =
           IF issuing = Ok
           THEN [q EXCEPT !.pc = "insertTransaction", !.mined = Ok]
           ELSE [q EXCEPT !.pc = "done",
                          !.mined = IF executed
                                    THEN issueCertificateRevert(signer, toBytes32(docHash),
                                                                q.ipfsCID)
                                    ELSE NoValue,
                          !.response = ErrorResponse("issue", 500,
                                                     "Failed to issue certificate")]]
    /\ UNCHANGED <<historyVars, processVars, storeVars, response, trace, receipts>>

\* await insertTransaction(...) ends, and the answer is sent
issueMirrored(r, dbUp) ==
    LET q             == inflight[r]
        docHash       == hashDocumentForBlockchain(q.file)
        txHash        == TransactionHash(signer, toBytes32(docHash))
        issuerAddress == getSignerAddress
        inserted      == insertTransaction([txHash  |-> txHash,
                                            docHash |-> docHash,
                                            ipfsCID |-> q.ipfsCID,
                                            issuer  |-> issuerAddress,
                                            status  |-> "confirmed"], dbUp)
    IN
    /\ q.pc = "insertTransaction"
    /\ IF inserted = {}
       THEN /\ transactions' = transactions
            /\ inflight' = [inflight EXCEPT ![r] =
                   [q EXCEPT !.pc = "done",
                             !.response = ErrorResponse("issue", 500,
                                                        "Failed to issue certificate")]]
       ELSE /\ transactions' \in inserted
            /\ inflight' = [inflight EXCEPT ![r] =
                   [q EXCEPT !.pc = "done",
                             !.response = [NoResponse EXCEPT
                                 !.route = "issue", !.status = 200, !.success = TRUE,
                                 !.docHash = docHash, !.ipfsCID = q.ipfsCID,
                                 !.transactionHash = txHash,
                                 !.issuer = issuerAddress]]]
    /\ UNCHANGED <<chainVars, processVars, ipfsStorage, localStorage, response, trace,
                   receipts>>

\* mutant: valid only when the metadata could be read
verifyResponse_ValidNeedsMetadata(file, rpcUp, remoteUp, localUp) ==
    LET docHash       == hashDocumentForBlockchain(file)
        certData      == web3_verifyCertificate(docHash, rpcUp)
        encryptedData == retrieveFromIPFS(certData.ipfsCID, remoteUp, localUp)
        metadata      == UNION {decryptMetadata(d["encrypted"], d["iv"], AES_ENCRYPTION_KEY) :
                                    d \in encryptedData}
    IN
    IF ~web3Ready THEN ErrorResponse("verify", 503, "Web3 not initialized")
    ELSE IF file = NoFile THEN ErrorResponse("verify", 400, "No certificate file provided")
    ELSE IF ~certData.ok THEN ErrorResponse("verify", 500, "Failed to verify certificate")
    ELSE IF ~certData.exists \/ metadata = {}
    THEN [NoResponse EXCEPT !.route = "verify", !.status = 200, !.docHash = docHash]
    ELSE [NoResponse EXCEPT !.route = "verify", !.status = 200, !.valid = TRUE,
                            !.docHash = docHash, !.issuer = certData.issuer,
                            !.timestamp = certData.timestamp, !.ipfsCID = certData.ipfsCID,
                            !.metadata = metadata]

\* mutant: a blob that cannot be fetched fails the request
verifyResponse_FetchFailureIsError(file, rpcUp, remoteUp, localUp) ==
    LET docHash       == hashDocumentForBlockchain(file)
        certData      == web3_verifyCertificate(docHash, rpcUp)
        encryptedData == retrieveFromIPFS(certData.ipfsCID, remoteUp, localUp)
        metadata      == UNION {decryptMetadata(d["encrypted"], d["iv"], AES_ENCRYPTION_KEY) :
                                    d \in encryptedData}
    IN
    IF ~web3Ready THEN ErrorResponse("verify", 503, "Web3 not initialized")
    ELSE IF file = NoFile THEN ErrorResponse("verify", 400, "No certificate file provided")
    ELSE IF ~certData.ok THEN ErrorResponse("verify", 500, "Failed to verify certificate")
    ELSE IF ~certData.exists
    THEN [NoResponse EXCEPT !.route = "verify", !.status = 200, !.docHash = docHash]
    ELSE IF encryptedData = {}
    THEN ErrorResponse("verify", 500, "Failed to verify certificate")
    ELSE [NoResponse EXCEPT !.route = "verify", !.status = 200, !.valid = TRUE,
                            !.docHash = docHash, !.issuer = certData.issuer,
                            !.timestamp = certData.timestamp, !.ipfsCID = certData.ipfsCID,
                            !.metadata = metadata]

\* the answer of POST /verify
verifyResponse(file, rpcUp, remoteUp, localUp) ==
    LET docHash       == hashDocumentForBlockchain(file)
        certData      == web3_verifyCertificate(docHash, rpcUp)
        encryptedData == retrieveFromIPFS(certData.ipfsCID, remoteUp, localUp)
        metadata      == UNION {decryptMetadata(d["encrypted"], d["iv"], AES_ENCRYPTION_KEY) :
                                    d \in encryptedData}
    IN
    IF ~web3Ready THEN ErrorResponse("verify", 503, "Web3 not initialized")
    ELSE IF file = NoFile THEN ErrorResponse("verify", 400, "No certificate file provided")
    ELSE IF ~certData.ok THEN ErrorResponse("verify", 500, "Failed to verify certificate")
    ELSE IF ~certData.exists
    THEN [NoResponse EXCEPT !.route = "verify", !.status = 200, !.valid = FALSE,
                            !.docHash = docHash]
    ELSE [NoResponse EXCEPT !.route = "verify", !.status = 200, !.valid = TRUE,
                            !.docHash = docHash, !.issuer = certData.issuer,
                            !.timestamp = certData.timestamp, !.ipfsCID = certData.ipfsCID,
                            !.metadata = metadata]

\* docHash.startsWith('0x') ? docHash : '0x' + docHash
formattedHash(docHash) ==
    IF startsWith(docHash, "0x") THEN docHash ELSE <<"0x" \o docHash[1], docHash[2]>>

\* the answer of GET /cert/:hash
getCertResponse(hash, rpcUp, remoteUp, localUp) ==
    LET certData      == web3_getCertificate(formattedHash(hash), rpcUp)
        encryptedData == retrieveFromIPFS(certData.ipfsCID, remoteUp, localUp)
        metadata      == UNION {decryptMetadata(d["encrypted"], d["iv"], AES_ENCRYPTION_KEY) :
                                    d \in encryptedData}
    IN
    IF ~web3Ready THEN ErrorResponse("cert", 503, "Web3 not initialized")
    ELSE IF ~certData.ok THEN ErrorResponse("cert", 500, "Failed to get certificate")
    ELSE IF ~certData.exists
    THEN [ErrorResponse("cert", 404, "Certificate not found") EXCEPT
             !.docHash = formattedHash(hash)]
    ELSE [NoResponse EXCEPT !.route = "cert", !.status = 200, !.exists = TRUE,
                            !.docHash = certData.docHash, !.issuer = certData.issuer,
                            !.timestamp = certData.timestamp, !.ipfsCID = certData.ipfsCID,
                            !.metadata = metadata]

\* GET /cert/:hash
getCertHandler(hash, rpcUp, remoteUp, localUp) ==
    /\ response' = getCertResponse(hash, rpcUp, remoteUp, localUp)
    /\ trace' = NoTrace
    /\ UNCHANGED <<chainVars, processVars, storeVars, receipts, inflight>>

\* what the ledger holds for the file, whatever the handler gets to see
LedgerRecord(file) ==
    IF file = NoFile THEN ZeroCertificate
    ELSE certificates[toBytes32(hashDocumentForBlockchain(file))]

\* mutant: a verification that found the record is written to the audit log
verifyHandler_RecordsVerification(file, rpcUp, remoteUp, localUp) ==
    LET cert    == LedgerRecord(file)
        reached == web3Ready /\ file # NoFile /\ rpcUp /\ cert.exists
    IN
    /\ response' = verifyResponse(file, rpcUp, remoteUp, localUp)
    /\ trace' = [NoTrace EXCEPT
                    !.file     = file,
                    !.fetch    = IF ~reached THEN NoValue
                                 ELSE IF retrieveFromIPFS(cert.ipfsCID, remoteUp, localUp) = {}
                                      THEN "failed" ELSE "ok",
                    !.holderUp = reached /\ IF startsWith(cert.ipfsCID, "local-")
                                            THEN localUp ELSE remoteUp]
    /\ transactions' =
          IF reached
          THEN [i \in DOMAIN transactions |->
                   IF transactions[i].docHash = hashDocumentForBlockchain(file)
                   THEN [transactions[i] EXCEPT !.status = "pending"]
                   ELSE transactions[i]]
          ELSE transactions
    /\ UNCHANGED <<chainVars, processVars, ipfsStorage, localStorage, receipts, inflight>>

\* POST /verify
verifyHandler(file, rpcUp, remoteUp, localUp) ==
    LET cert    == LedgerRecord(file)
        reached == web3Ready /\ file # NoFile /\ rpcUp /\ cert.exists
    IN
    /\ response' = verifyResponse(file, rpcUp, remoteUp, localUp)
    /\ trace' = [NoTrace EXCEPT
                    !.file     = file,
                    !.fetch    = IF ~reached THEN NoValue
                                 ELSE IF retrieveFromIPFS(cert.ipfsCID, remoteUp, localUp) = {}
                                      THEN "failed" ELSE "ok",
                    !.holderUp = reached /\ IF startsWith(cert.ipfsCID, "local-")
                                            THEN localUp ELSE remoteUp]
    /\ UNCHANGED <<chainVars, processVars, storeVars, receipts, inflight>>

\* the process starts: the module-level state, the environment, and the
\* initialisation that runs when routes/certificate.js is loaded
startBackend(useIpfs, key, networkUp, privateKey, created) ==
    LET w == initWeb3(networkUp, privateKey) IN
    /\ USE_IPFS' = useIpfs
    /\ AES_ENCRYPTION_KEY' = key
    /\ web3Ready' = w.ready
    /\ signer' = w.signer
    /\ ipfsClient' = initIPFS(useIpfs, created)
    /\ UNCHANGED <<chainVars, storeVars, requestVars>>

\* the backend as it is deployed: every service configured and up
BackendInit ==
    /\ web3Ready = TRUE
    /\ signer = Deployer
    /\ USE_IPFS = TRUE
    /\ ipfsClient = TRUE
    /\ AES_ENCRYPTION_KEY = 1
    /\ ipfsStorage = {}
    /\ localStorage = << >>
    /\ transactions = << >>
    /\ response = NoResponse
    /\ inflight = [r \in Requests |-> NoRequest]
    /\ trace = NoTrace
    /\ receipts = [f \in Files |-> NoReceipt]

\* --------------------------------------------- the registry on its own
\* a transaction that is mined gets its block's timestamp, not before the
\* latest block's; a call that reverts leaves the chain as it is
BlockTimes(r) == IF r = Ok THEN {t \in Time : t >= blockTimestamp} ELSE {blockTimestamp}

\* the call becomes the latest call, the storage it found is remembered
Record(tx) ==
    /\ before' = ledgerState
    /\ lastTx' = tx
    /\ UNCHANGED creator

Event(r, name) == IF r = Ok THEN name ELSE NoValue

LedgerInit ==
    /\ creator = Deployer
    /\ ConstructorInit(creator)
    /\ lastTx = Tx("constructor", creator, ZeroHash, EmptyString, creator, Ok,
                   "IssuerAdded", NoReturn)
    /\ revokedIssuers = {}
    /\ issued = [h \in Hash |-> NotIssued]
    /\ before = [owner |-> ZeroAddress, authorizedIssuers |-> [a \in Address |-> FALSE],
                 certificates |-> [h \in Hash |-> ZeroCertificate]]

TxAddAuthorizedIssuer ==
    \E s \in Addr, a \in Address :
        LET r == addAuthorizedIssuerRevert(s, a) IN
        /\ \E t \in BlockTimes(r) : addAuthorizedIssuer(s, a, t)
        /\ Record(Tx("addAuthorizedIssuer", s, ZeroHash, EmptyString, a, r,
                     Event(r, "IssuerAdded"), NoReturn))
        /\ UNCHANGED <<revokedIssuers, issued, backendVars>>

TxRemoveAuthorizedIssuer ==
    \E s \in Addr, a \in Address :
        LET r == removeAuthorizedIssuerRevert(s, a) IN
        /\ \E t \in BlockTimes(r) : removeAuthorizedIssuer(s, a, t)
        /\ Record(Tx("removeAuthorizedIssuer", s, ZeroHash, EmptyString, a, r,
                     Event(r, "IssuerRemoved"), NoReturn))
        /\ revokedIssuers' = IF r = Ok /\ HasIssued(a)
                             THEN revokedIssuers \cup {a} ELSE revokedIssuers
        /\ UNCHANGED <<issued, backendVars>>

TxIssueCertificate ==
    \E s \in Addr, h \in Hash, c \in CidStrings :
        LET r == issueCertificateRevert(s, h, c) IN
        /\ \E t \in BlockTimes(r) :
              /\ issueCertificate(s, h, c, t)
              /\ issued' = IF r = Ok
                           THEN [issued EXCEPT ![h] = [done |-> TRUE, sender |-> s,
                                                       ipfsCID |-> c, timestamp |-> t]]
                           ELSE issued
        /\ Record(Tx("issueCertificate", s, h, c, ZeroAddress, r,
                     Event(r, "CertificateIssued"), NoReturn))
        /\ UNCHANGED <<revokedIssuers, backendVars>>

CallVerifyCertificate ==
    \E s \in Addr, h \in Hash :
        /\ callVerifyCertificate(s, h)
        /\ Record(Tx("verifyCertificate", s, h, EmptyString, ZeroAddress, Ok, NoValue,
                     verifyCertificate(h)))
        /\ UNCHANGED <<revokedIssuers, issued, backendVars>>

TxTransferOwnership ==
    \E s \in Addr, a \in Address :
        LET r == transferOwnershipRevert(s, a) IN
        /\ \E t \in BlockTimes(r) : transferOwnership(s, a, t)
        /\ Record(Tx("transferOwnership", s, ZeroHash, EmptyString, a, r,
                     Event(r, "OwnershipTransferred"), NoReturn))
        /\ UNCHANGED <<revokedIssuers, issued, backendVars>>

TxRenounceOwnership ==
    \E s \in Addr :
        LET r == renounceOwnershipRevert(s) IN
        /\ \E t \in BlockTimes(r) : renounceOwnership(s, t)
        /\ Record(Tx("renounceOwnership", s, ZeroHash, EmptyString, ZeroAddress, r,
                     Event(r, "OwnershipTransferred"), NoReturn))
        /\ UNCHANGED <<revokedIssuers, issued, backendVars>>

\* the contract deployed, the backend deployed and at rest
Init == LedgerInit /\ BackendInit

LedgerNext ==
    \/ TxAddAuthorizedIssuer
    \/ TxRemoveAuthorizedIssuer
    \/ TxIssueCertificate
    \/ CallVerifyCertificate
    \/ TxTransferOwnership
    \/ TxRenounceOwnership

LedgerSpec == Init /\ [][LedgerNext]_vars

\* ----------------------------------------------------- the whole system
\* The handlers run to their answer in one step each: what they await (the
\* blob store, the ledger, the database) answers or fails as the step's
\* inputs say.  The answer stays in `response` until the client has it.
Pending == response # NoResponse

\* each transaction of this specification is mined in a block of its own,
\* one second after the block before it (LedgerSpec has every other timing)
NextBlockTime == IF blockTimestamp < MaxTime THEN blockTimestamp + 1 ELSE blockTimestamp

StartBackend ==
    /\ ~Pending
    /\ \E useIpfs \in BOOLEAN, key \in Keys, networkUp \in BOOLEAN,
          privateKey \in {Null} \cup Addr, created \in BOOLEAN :
           startBackend(useIpfs, key, networkUp, privateKey, created)

Issue ==
    /\ ~Pending
    /\ \E file \in {NoFile} \cup Files, b \in DOMAIN Bodies :
        IF issueRejection(file, b) # NoResponse
        THEN issueHandler(file, b, 1, TRUE, TRUE, "ok", NextBlockTime, TRUE, "sent")
        ELSE \E iv \in IVs, remoteUp \in BOOLEAN, localUp \in BOOLEAN :
            IF ~uploadToIPFS(encryptMetadata(ExtractMetadata(Bodies[b]),
                                             AES_ENCRYPTION_KEY, iv), remoteUp, localUp).ok
            THEN issueHandler(file, b, iv, remoteUp, localUp, "ok", NextBlockTime, TRUE,
                              "sent")
            ELSE \E rpc \in {"ok", "down", "lost"}, dbUp \in BOOLEAN,
                    end \in {"sent", "ledger", "database"} :
                     /\ rpc = "ok" \/ (dbUp /\ end = "sent")
                     /\ issueHandler(file, b, iv, remoteUp, localUp, rpc, NextBlockTime,
                                     dbUp, end)

Verify ==
    /\ ~Pending
    /\ \E file \in {NoFile} \cup Files, rpcUp \in BOOLEAN, remoteUp \in BOOLEAN,
          localUp \in BOOLEAN :
           verifyHandler(file, rpcUp, remoteUp, localUp)

\* the hash of the URL: the hex digits, with the 0x prefix or without it
HashParams == {<<"0x", h>> : h \in Hash} \cup {<<"", h>> : h \in Hash}

GetCert ==
    /\ ~Pending
    /\ \E hash \in HashParams, rpcUp \in BOOLEAN, remoteUp \in BOOLEAN, localUp \in BOOLEAN :
           getCertHandler(hash, rpcUp, remoteUp, localUp)

\* the client has the answer
Answered ==
    /\ Pending
    /\ response' = NoResponse
    /\ trace' = NoTrace
    /\ UNCHANGED <<chainVars, processVars, storeVars, receipts, inflight>>

\* another client of the registry, with the key of an authorized issuer,
\* records a certificate of its own; calls that revert change nothing
ClientIssues ==
    /\ ~Pending
    /\ \E s \in Addr, h \in Hash, c \in {<<"Qm", NumCid>>} :
        /\ issueCertificateRevert(s, h, c) = Ok
        /\ issueCertificate(s, h, c, NextBlockTime)
        /\ UNCHANGED <<historyVars, backendVars>>

\* a user of db/database.js sets the status of a transaction's row (the
\* module exports the function; no route of the backend calls it)
UpdateTransactionStatus ==
    /\ ~Pending
    /\ \E h \in Hash \ {ZeroHash}, status \in Statuses, dbUp \in BOOLEAN :
        transactions' = updateTransactionStatus(TransactionHash(signer, h), status, dbUp)
    /\ UNCHANGED <<chainVars, processVars, ipfsStorage, localStorage, requestVars>>

Next ==
    \/ StartBackend
    \/ Issue
    \/ Verify
    \/ GetCert
    \/ Answered
    \/ ClientIssues
    \/ UpdateTransactionStatus

Spec == Init /\ [][Next]_vars

\* ------------------------------------------- requests side by side
\* The event loop runs a handler from one await to the next and then any
\* other handler that is ready: the requests' steps interleave freely.
\* What a step awaits answers or fails as the step's inputs say.
IssueReceived ==
    \E r \in Requests, file \in {NoFile} \cup Files, b \in DOMAIN Bodies, iv \in IVs :
        issueReceived(r, file, b, iv)

IssueUploaded ==
    \E r \in Requests, remoteUp \in BOOLEAN, localUp \in BOOLEAN :
        issueUploaded(r, remoteUp, localUp)

IssueWritten ==
    \E r \in Requests, rpc \in {"ok", "down", "lost"} : issueWritten(r, rpc, NextBlockTime)

IssueMirrored ==
    \E r \in Requests, dbUp \in BOOLEAN : issueMirrored(r, dbUp)

RaceNext ==
    \/ IssueReceived
    \/ IssueUploaded
    \/ IssueWritten
    \/ IssueMirrored

RaceSpec == Init /\ [][RaceNext]_vars

\* ======================================================================
\* Properties of the registry, checked under LedgerSpec.  lastTx is the
\* latest call to the contract, `before` the contract storage that call
\* found and ledgerState the storage it left: a property of the pair
\* (before, ledgerState) that holds in every reachable state holds of every
\* call in every behaviour.
\* ======================================================================
IsIssueCall(tx) == tx.op = "issueCertificate"

LookupResult(cert) ==
    [exists |-> cert.exists, ipfsCID |-> cert.ipfsCID, issuer |-> cert.issuer,
     timestamp |-> cert.timestamp]

\* C1: once a certificate record exists for a docHash, no call (authorize,
\* revoke, issue, lookup, ownership transfer) by any caller changes any of its
\* fields or deletes it.
C1_AppendOnly ==
    \A h \in Hash :
        before.certificates[h].exists => certificates[h] = before.certificates[h]

\* a trusted caller re-issued an existing docHash with another CID in a later
\* block, and was rejected
C1_Witness ==
    /\ IsIssueCall(lastTx)
    /\ before.certificates[lastTx.docHash].exists
    /\ authorizedIssuers[lastTx.sender]
    /\ Len(lastTx.ipfsCID) > 0
    /\ certificates[lastTx.docHash].ipfsCID # lastTx.ipfsCID
    /\ certificates[lastTx.docHash].timestamp < blockTimestamp
    /\ lastTx.status # Ok

\* C2 as stated: issuing a docHash that already has a record fails with
\* "Certificate already exists" for any trusted caller and ANY blobRef, and
\* leaves the ledger state as it was.
C2_Original ==
    (/\ IsIssueCall(lastTx)
     /\ before.authorizedIssuers[lastTx.sender]
     /\ before.certificates[lastTx.docHash].exists)
    => (lastTx.status = ErrAlreadyExists /\ ledgerState = before)

\* C2 amended: issuing a docHash that already has a record fails with
\* "Certificate already exists" for any trusted caller and any NON-EMPTY
\* blobRef (same as or different from the first), and leaves the ledger state
\* as it was; with an empty blobRef the call fails too, with "Invalid IPFS CID".
C2_DuplicateRejected ==
    (/\ IsIssueCall(lastTx)
     /\ before.authorizedIssuers[lastTx.sender]
     /\ before.certificates[lastTx.docHash].exists)
    => /\ lastTx.status = IF Len(lastTx.ipfsCID) > 0 THEN ErrAlreadyExists
                          ELSE ErrInvalidCID
       /\ lastTx.event = NoValue
       /\ ledgerState = before

\* a second issue of the docHash, by another trusted writer and with another
\* non-empty CID than the first, was rejected as a duplicate
C2_Witness ==
    /\ IsIssueCall(lastTx)
    /\ lastTx.status = ErrAlreadyExists
    /\ before.certificates[lastTx.docHash].exists
    /\ certificates[lastTx.docHash].issuer # lastTx.sender
    /\ certificates[lastTx.docHash].ipfsCID # lastTx.ipfsCID

\* C3: an issue call by an identity that is not a trusted writer fails with
\* "Not an authorized issuer" whatever the docHash and blobRef, and leaves the
\* certificate records, the writer authorizations and the owner unchanged.
C3_UntrustedIssueRejected ==
    (IsIssueCall(lastTx) /\ ~before.authorizedIssuers[lastTx.sender])
    => /\ lastTx.status = ErrNotAuthorizedIssuer
       /\ lastTx.event = NoValue
       /\ ledgerState = before

\* the owner, no longer a trusted writer, was refused an otherwise valid issue
C3_Witness ==
    /\ IsIssueCall(lastTx)
    /\ lastTx.status = ErrNotAuthorizedIssuer
    /\ lastTx.sender = owner
    /\ lastTx.docHash # ZeroHash
    /\ Len(lastTx.ipfsCID) > 0
    /\ ~certificates[lastTx.docHash].exists

\* C4: after a successful issue(docHash, blobRef) by writer W, every lookup of
\* docHash, by any caller and at any later time, returns exists = true, the
\* given blobRef, issuer = W and a timestamp > 0 (the block time of the issue).
C4_LookupAfterIssue ==
    /\ \A h \in Hash : issued[h].done =>
          /\ h # ZeroHash
          /\ verifyCertificate(h) = [exists |-> TRUE, ipfsCID |-> issued[h].ipfsCID,
                                     issuer |-> issued[h].sender,
                                     timestamp |-> issued[h].timestamp]
          /\ verifyCertificate(h).timestamp > 0
    /\ (lastTx.op = "verifyCertificate" /\ issued[lastTx.docHash].done) =>
          /\ lastTx.status = Ok
          /\ lastTx.ret.exists
          /\ lastTx.ret.ipfsCID = issued[lastTx.docHash].ipfsCID
          /\ lastTx.ret.issuer = issued[lastTx.docHash].sender
          /\ lastTx.ret.timestamp > 0

\* two records issued by two different writers, one of them not the owner,
\* and a lookup of one of them by a caller that is not a trusted writer
C4_Witness ==
    /\ lastTx.op = "verifyCertificate"
    /\ ~authorizedIssuers[lastTx.sender]
    /\ issued[lastTx.docHash].done
    /\ \E h \in Hash : /\ issued[h].done
                       /\ issued[h].sender # issued[lastTx.docHash].sender
                       /\ issued[h].sender # owner

\* C8 as stated: after writer W issued a docHash and the owner then revoked W,
\* EVERY later issue by W fails with the authorization error.
C8_Original ==
    (IsIssueCall(lastTx) /\ lastTx.sender \in revokedIssuers)
        => lastTx.status = ErrNotAuthorizedIssuer

\* C8 amended: after writer W issued docHash H and the owner then revoked W,
\* every later issue by W fails with the authorization error for as long as the
\* owner has not authorized W again, while lookup(H) keeps returning exactly
\* the record it returned before the revocation (exists, same blobRef, issuer
\* W, same timestamp).
C8_RevocationNotRetroactive ==
    /\ (/\ IsIssueCall(lastTx)
        /\ lastTx.sender \in revokedIssuers
        /\ ~before.authorizedIssuers[lastTx.sender])
       => lastTx.status = ErrNotAuthorizedIssuer
    /\ \A h \in Hash :
          (before.certificates[h].exists /\
              before.certificates[h].issuer \in revokedIssuers)
          => /\ verifyCertificate(h) = LookupResult(before.certificates[h])
             /\ verifyCertificate(h).exists
             /\ verifyCertificate(h).issuer \in revokedIssuers

\* W issued a record, was revoked, and was then refused a fresh issue, the
\* record still being there
C8_Witness ==
    /\ IsIssueCall(lastTx)
    /\ lastTx.sender \in revokedIssuers
    /\ lastTx.status = ErrNotAuthorizedIssuer
    /\ lastTx.docHash # ZeroHash
    /\ Len(lastTx.ipfsCID) > 0
    /\ ~certificates[lastTx.docHash].exists
    /\ \E h \in Hash : certificates[h].exists /\ certificates[h].issuer = lastTx.sender

\* C9: for a caller that is not the owner, issue is the only call that can
\* change the ledger state: authorize and revoke by a non-owner fail with the
\* unauthorized error and change nothing, and neither does any other call.
C9_NonOwnerOnlyIssues ==
    lastTx.sender # before.owner =>
       /\ lastTx.op \in {"addAuthorizedIssuer", "removeAuthorizedIssuer"}
          => /\ lastTx.status = ErrOwnableUnauthorized
             /\ lastTx.event = NoValue
             /\ ledgerState = before
       /\ ledgerState # before
          => \/ IsIssueCall(lastTx) /\ lastTx.status = Ok
             \/ lastTx.op = "constructor"

\* a trusted writer that is not the owner tried to authorize a fresh identity
C9_Witness ==
    /\ lastTx.op = "addAuthorizedIssuer"
    /\ lastTx.sender # owner
    /\ authorizedIssuers[lastTx.sender]
    /\ lastTx.account # ZeroAddress
    /\ ~authorizedIssuers[lastTx.account]
    /\ lastTx.status = ErrOwnableUnauthorized

\* C10 as stated: in every reachable state the owner is the creator of the
\* ledger; no operation the registry exposes changes or clears it.
C10_Original == owner = creator

\* C10 amended: the owner is the creator when the ledger is created, and
\* authorize, revoke, issue and lookup never change it; the owner changes only
\* when the current owner itself calls transferOwnership (to a non-zero
\* identity) or renounceOwnership (which clears it), both inherited from
\* Ownable and exposed by the registry.
C10_OwnerChangesOnlyByOwner ==
    /\ lastTx.op = "constructor" => owner = creator /\ creator = lastTx.sender
    /\ (lastTx.op # "constructor" /\ owner # before.owner) =>
          /\ lastTx.sender = before.owner
          /\ lastTx.status = Ok
          /\ \/ /\ lastTx.op = "transferOwnership"
                /\ owner = lastTx.account
                /\ owner # ZeroAddress
             \/ /\ lastTx.op = "renounceOwnership"
                /\ owner = ZeroAddress

\* the creator handed the ledger over and the new owner authorized a writer
C10_Witness ==
    /\ owner # creator
    /\ owner # ZeroAddress
    /\ lastTx.op = "addAuthorizedIssuer"
    /\ lastTx.sender = owner
    /\ lastTx.status = Ok

\* C11: authorize(identity) called by the owner fails with "Invalid issuer
\* address" when identity is the zero address and with "Already authorized"
\* when identity is already a trusted writer, changing nothing and emitting
\* no event; otherwise it succeeds, emits IssuerAdded and identity is a
\* trusted writer afterwards.
C11_AuthorizeByOwner ==
    (lastTx.op = "addAuthorizedIssuer" /\ lastTx.sender = before.owner)
    => IF lastTx.account = ZeroAddress
       THEN /\ lastTx.status = ErrInvalidIssuer
            /\ lastTx.event = NoValue
            /\ ledgerState = before
       ELSE IF before.authorizedIssuers[lastTx.account]
       THEN /\ lastTx.status = ErrAlreadyAuthorized
            /\ lastTx.event = NoValue
            /\ ledgerState = before
       ELSE /\ lastTx.status = Ok
            /\ lastTx.event = "IssuerAdded"
            /\ authorizedIssuers[lastTx.account]

\* the owner authorized again a writer, not itself, that was already trusted
C11_Witness ==
    /\ lastTx.op = "addAuthorizedIssuer"
    /\ lastTx.sender = before.owner
    /\ lastTx.account # before.owner
    /\ before.authorizedIssuers[lastTx.account]
    /\ lastTx.status = ErrAlreadyAuthorized

\* C12: revoke(identity) called by the owner fails with "Issuer not
\* authorized" exactly when identity is not a trusted writer at the call, and
\* then changes nothing; when identity is trusted it succeeds and identity is
\* not trusted afterwards, so that revoking the same identity again fails.
C12_RevokeByOwner ==
    (lastTx.op = "removeAuthorizedIssuer" /\ lastTx.sender = before.owner)
    => IF ~before.authorizedIssuers[lastTx.account]
       THEN /\ lastTx.status = ErrIssuerNotAuthorized
            /\ lastTx.event = NoValue
            /\ ledgerState = before
       ELSE /\ lastTx.status = Ok
            /\ lastTx.event = "IssuerRemoved"
            /\ ~authorizedIssuers[lastTx.account]
            /\ removeAuthorizedIssuerRevert(owner, lastTx.account) = ErrIssuerNotAuthorized

\* the owner revoked once more a writer it had revoked before
C12_Witness ==
    /\ lastTx.op = "removeAuthorizedIssuer"
    /\ lastTx.sender = before.owner
    /\ lastTx.account \in revokedIssuers
    /\ lastTx.status = ErrIssuerNotAuthorized

\* C13: lookup(docHash) never fails, whoever calls it, and changes nothing:
\* for a docHash without a record it returns exists = false, the empty CID,
\* the zero address and timestamp 0, and for a docHash with a record it
\* returns exists = true and the record's CID, issuer and timestamp.
C13_LookupNeverFails ==
    /\ \A h \in Hash :
          verifyCertificate(h) = IF certificates[h].exists
                                 THEN LookupResult(certificates[h])
                                 ELSE NoReturn
    /\ lastTx.op = "verifyCertificate"
       => /\ lastTx.status = Ok
          /\ ledgerState = before
          /\ lastTx.ret = IF before.certificates[lastTx.docHash].exists
                          THEN [exists |-> TRUE,
                                ipfsCID |-> before.certificates[lastTx.docHash].ipfsCID,
                                issuer |-> before.certificates[lastTx.docHash].issuer,
                                timestamp |-> before.certificates[lastTx.docHash].timestamp]
                          ELSE NoReturn

\* a caller that is neither owner nor trusted writer looked up a docHash
\* without a record while another writer's record was there
C13_Witness ==
    /\ lastTx.op = "verifyCertificate"
    /\ lastTx.sender # owner
    /\ ~authorizedIssuers[lastTx.sender]
    /\ lastTx.docHash # ZeroHash
    /\ ~certificates[lastTx.docHash].exists
    /\ lastTx.ret = NoReturn
    /\ \E h \in Hash : certificates[h].exists /\ certificates[h].issuer # owner

\* C14: an issue by a trusted writer with an invalid argument is rejected
\* and changes nothing: a zero docHash fails with "Invalid document hash",
\* whatever the CID, and an empty CID with a non-zero docHash fails with
\* "Invalid IPFS CID"; so no record exists under the zero docHash or with an
\* empty CID.
C14_InvalidArgumentRejected ==
    /\ (IsIssueCall(lastTx) /\ before.authorizedIssuers[lastTx.sender])
       => /\ lastTx.docHash = ZeroHash
             => /\ lastTx.status = ErrInvalidHash
                /\ lastTx.event = NoValue
                /\ ledgerState = before
          /\ (lastTx.docHash # ZeroHash /\ Len(lastTx.ipfsCID) = 0)
             => /\ lastTx.status = ErrInvalidCID
                /\ lastTx.event = NoValue
                /\ ledgerState = before
    /\ ~certificates[ZeroHash].exists
    /\ \A h \in Hash : certificates[h].exists => Len(certificates[h].ipfsCID) > 0

\* a trusted writer was refused a zero docHash with an empty CID, records
\* being there already
C14_Witness ==
    /\ IsIssueCall(lastTx)
    /\ before.authorizedIssuers[lastTx.sender]
    /\ lastTx.docHash = ZeroHash
    /\ Len(lastTx.ipfsCID) = 0
    /\ lastTx.status = ErrInvalidHash
    /\ \E h \in Hash : certificates[h].exists

\* C15: right after the contract is created its creator is the owner and the
\* only trusted writer, and no certificate record exists.
C15_InitialState ==
    lastTx.op = "constructor"
    => /\ owner = creator
       /\ lastTx.sender = creator
       /\ \A a \in Address : authorizedIssuers[a] <=> a = creator
       /\ \A h \in Hash : certificates[h] = ZeroCertificate

\* the contract has just been created, by an account that is not address(0)
C15_Witness ==
    /\ lastTx.op = "constructor"
    /\ lastTx.status = Ok
    /\ creator \in Addr
    /\ authorizedIssuers[creator]

\* C25: the owner's control over the issuers does not depend on the owner
\* being an authorized issuer: the owner's revocation of itself succeeds and
\* leaves it owner; an owner that is not an authorized issuer is refused
\* every issue with "Not an authorized issuer", while its authorizations and
\* revocations succeed as for any owner, its authorization of itself
\* included.
C25_OwnerNeedNotBeIssuer ==
    /\ (/\ lastTx.op = "removeAuthorizedIssuer"
        /\ lastTx.sender = before.owner
        /\ lastTx.account = before.owner
        /\ before.authorizedIssuers[before.owner])
       => /\ lastTx.status = Ok
          /\ owner = before.owner
          /\ ~authorizedIssuers[owner]
    /\ (lastTx.sender = before.owner /\ ~before.authorizedIssuers[before.owner])
       => /\ IsIssueCall(lastTx) => lastTx.status = ErrNotAuthorizedIssuer
          /\ lastTx.op = "addAuthorizedIssuer"
             => (lastTx.status = Ok
                    <=> (lastTx.account # ZeroAddress
                         /\ ~before.authorizedIssuers[lastTx.account]))
          /\ lastTx.op = "removeAuthorizedIssuer"
             => (lastTx.status = Ok <=> before.authorizedIssuers[lastTx.account])
          /\ (lastTx.op = "addAuthorizedIssuer" /\ lastTx.account = before.owner)
             => (lastTx.status = Ok /\ authorizedIssuers[owner])

\* no identity was an authorized issuer, the owner having revoked itself,
\* and the owner has authorized itself again
C25_Witness ==
    /\ lastTx.op = "addAuthorizedIssuer"
    /\ lastTx.sender = before.owner
    /\ lastTx.account = before.owner
    /\ \A a \in Address : ~before.authorizedIssuers[a]
    /\ lastTx.status = Ok
    /\ authorizedIssuers[owner]

\* C26: in every reachable state the record at every key k is either the
\* zero record or has exists = true, docHash = k, k not zero, a
\* non-empty CID and as issuer a non-zero address, the sender of the issue
\* call that wrote it, which was an authorized issuer when it called; and
\* address(0) is never an authorized issuer.
C26_RecordWellFormed ==
    /\ \A k \in Hash :
           \/ /\ certificates[k] = ZeroCertificate
              /\ ~issued[k].done
           \/ /\ certificates[k].exists
              /\ certificates[k].docHash = k
              /\ k # ZeroHash
              /\ Len(certificates[k].ipfsCID) > 0
              /\ certificates[k].issuer # ZeroAddress
              /\ issued[k].done
              /\ certificates[k].issuer = issued[k].sender
    /\ (IsIssueCall(lastTx) /\ lastTx.status = Ok)
       => /\ before.authorizedIssuers[lastTx.sender]
          /\ issued[lastTx.docHash].sender = lastTx.sender
    /\ ~authorizedIssuers[ZeroAddress]

\* a record is there whose issuer is no longer an authorized issuer, next
\* to a key without a record
C26_Witness ==
    \E k, j \in Hash \ {ZeroHash} :
        /\ certificates[k].exists
        /\ ~authorizedIssuers[certificates[k].issuer]
        /\ certificates[k].issuer # owner
        /\ certificates[j] = ZeroCertificate

\* C27: issueCertificate makes its checks in the order: the caller is an
\* authorized issuer, the docHash is not zero, the CID is not empty, no
\* record exists; the error of a call is that of the first check that
\* fails, and the call succeeds when none does.
C27_CheckOrder ==
    IsIssueCall(lastTx)
    => lastTx.status =
          IF ~before.authorizedIssuers[lastTx.sender] THEN ErrNotAuthorizedIssuer
          ELSE IF lastTx.docHash = ZeroHash THEN ErrInvalidHash
          ELSE IF Len(lastTx.ipfsCID) = 0 THEN ErrInvalidCID
          ELSE IF before.certificates[lastTx.docHash].exists THEN ErrAlreadyExists
          ELSE Ok

\* an authorized issuer gave a docHash that has a record, with an empty
\* CID, and got "Invalid IPFS CID"
C27_Witness ==
    /\ IsIssueCall(lastTx)
    /\ before.authorizedIssuers[lastTx.sender]
    /\ before.certificates[lastTx.docHash].exists
    /\ Len(lastTx.ipfsCID) = 0
    /\ lastTx.status = ErrInvalidCID

\* C28: a successful authorization or revocation changes the flag of the
\* named identity and nothing else (no record, no other flag, not the
\* owner); a successful issue changes the record at the given docHash and
\* nothing else (no other record, no flag, not the owner).
C28_Frame ==
    /\ (lastTx.op \in {"addAuthorizedIssuer", "removeAuthorizedIssuer"}
        /\ lastTx.status = Ok)
       => /\ certificates = before.certificates
          /\ owner = before.owner
          /\ authorizedIssuers[lastTx.account] = (lastTx.op = "addAuthorizedIssuer")
          /\ before.authorizedIssuers[lastTx.account] = (lastTx.op = "removeAuthorizedIssuer")
          /\ \A a \in Address \ {lastTx.account} :
                 authorizedIssuers[a] = before.authorizedIssuers[a]
    /\ (IsIssueCall(lastTx) /\ lastTx.status = Ok)
       => /\ authorizedIssuers = before.authorizedIssuers
          /\ owner = before.owner
          /\ certificates[lastTx.docHash] # before.certificates[lastTx.docHash]
          /\ \A h \in Hash \ {lastTx.docHash} :
                 certificates[h] = before.certificates[h]

\* an identity was authorized while another identity was an authorized
\* issuer and a record was there
C28_Witness ==
    /\ lastTx.op = "addAuthorizedIssuer"
    /\ lastTx.status = Ok
    /\ \E a \in Addr \ {lastTx.account} : before.authorizedIssuers[a]
    /\ \E h \in Hash : before.certificates[h].exists

\* ======================================================================
\* Properties of the backend, checked under Spec.  A handler runs to its
\* answer in one step and the answer stays in `response` until the client
\* has it, so in every state with an answer the ledger, the stores and the
\* configuration are the ones the handler worked with.
\* ======================================================================
IsVerdict == response.route = "verify" /\ response.status = 200

\* the metadata the client gave with the issuance the receipt is of
GivenMetadata(file) == ExtractMetadata(Bodies[receipts[file].body])

\* C5: whenever POST /verify answers with a verdict (web3 is initialised, a
\* file was sent and the ledger was read), valid is true if and only if the
\* ledger holds a record for the fingerprint of the file that was sent: a
\* file that was never issued, a copy of an issued file with another
\* fingerprint included, gets valid = false.
C5_ValidIffRecorded ==
    IsVerdict => (response.valid <=> LedgerRecord(trace.file).exists)

C5_Witness ==
    /\ IsVerdict
    /\ ~response.valid
    /\ \E g \in Files : g # trace.file /\ LedgerRecord(g).exists /\ receipts[g].done

\* C6 as the specification states it: after an issuance of the file that
\* was answered with success, a verdict on the file is valid = true with the
\* metadata given at issuance, provided the backend that holds the blob is
\* reachable and the encryption key is the one of the issuance.
C6_Original ==
    (/\ IsVerdict
     /\ receipts[trace.file].done
     /\ trace.holderUp
     /\ AES_ENCRYPTION_KEY = receipts[trace.file].key)
    => /\ response.valid
       /\ response.metadata = {GivenMetadata(trace.file)}

\* C6: after an issuance of the file that was answered with success, a
\* verdict on the file is valid = true with the metadata given at issuance,
\* provided the backend that holds the blob is reachable, the encryption key
\* is the one of the issuance and, when the blob went to the remote backend,
\* the verifying process has the remote backend enabled and its client
\* created; a blob stored through the local fallback is read back whatever
\* the remote backend's configuration.
C6_RoundTrip ==
    (/\ IsVerdict
     /\ receipts[trace.file].done
     /\ trace.holderUp
     /\ AES_ENCRYPTION_KEY = receipts[trace.file].key
     /\ (~startsWith(receipts[trace.file].ipfsCID, "local-") => USE_IPFS /\ ipfsClient))
    => /\ response.valid
       /\ response.metadata = {GivenMetadata(trace.file)}

C6_Witness ==
    /\ IsVerdict
    /\ receipts[trace.file].done
    /\ startsWith(receipts[trace.file].ipfsCID, "local-")
    /\ USE_IPFS /\ ipfsClient
    /\ response.valid
    /\ response.metadata = {GivenMetadata(trace.file)}
    /\ \E g \in Files : /\ receipts[g].done
                        /\ ~startsWith(receipts[g].ipfsCID, "local-")

\* C7: when POST /verify has read a record for the file's fingerprint from
\* the ledger and fetching the blob by the record's CID fails, the answer is
\* 200 with valid = true, metadata = null and the record's issuer,
\* timestamp and CID; it is never valid = false and never an error.
C7_FailOpen ==
    (response.route = "verify" /\ trace.fetch = "failed")
    => /\ response.status = 200
       /\ response.error = NoValue
       /\ response.valid
       /\ response.metadata = {}
       /\ response.issuer = LedgerRecord(trace.file).issuer
       /\ response.timestamp = toString(LedgerRecord(trace.file).timestamp)
       /\ response.ipfsCID = LedgerRecord(trace.file).ipfsCID

C7_Witness ==
    /\ response.route = "verify"
    /\ trace.fetch = "failed"
    /\ receipts[trace.file].done
    /\ response.valid
    /\ response.metadata = {}

\* the blobs that the reference names, in the store that holds them
StoredBlobs(cid) ==
    IF startsWith(cid, "local-")
    THEN IF cid[2] \in 1 .. Len(localStorage) THEN {JSONparse(localStorage[cid[2]])} ELSE {}
    ELSE IF Len(cid) = 2
    THEN {JSONparse(x) : x \in {y \in ipfsStorage : ContentId(y) = cid[2]}}
    ELSE {}

IsReceipt == response.route = "issue" /\ response.success

\* C16: whenever POST /issue answers with the success receipt, the blob with
\* the encrypted metadata is in the store under the returned CID, the ledger
\* holds a record for the file's fingerprint with the returned CID and the
\* signer as issuer, and the audit log holds the row of that ledger write.
C16_NoPartialSuccess ==
    IsReceipt
    => /\ response.status = 200
       /\ response.docHash = hashDocumentForBlockchain(trace.file)
       /\ response.issuer = signer
       /\ \E d \in StoredBlobs(response.ipfsCID) :
              decryptMetadata(d["encrypted"], d["iv"], AES_ENCRYPTION_KEY)
                  = {GivenMetadata(trace.file)}
       /\ LedgerRecord(trace.file).exists
       /\ LedgerRecord(trace.file).ipfsCID = response.ipfsCID
       /\ LedgerRecord(trace.file).issuer = signer
       /\ \E i \in DOMAIN transactions :
              /\ transactions[i].txHash = response.transactionHash
              /\ transactions[i].docHash = response.docHash
              /\ transactions[i].ipfsCID = response.ipfsCID
              /\ transactions[i].issuer = response.issuer

\* the second certificate of this backend was issued with its blob in the
\* local directory, the remote store having failed
C16_Witness ==
    /\ IsReceipt
    /\ startsWith(response.ipfsCID, "local-")
    /\ trace.calls[1] = [to |-> "remote", ok |-> FALSE]
    /\ Len(transactions) = 2

\* C17 as stated: when the ledger write of POST /issue is confirmed and the
\* insert into the audit log fails, the request still answers with the
\* success receipt (docHash, CID, transaction hash, issuer).
C17_Original ==
    (response.route = "issue" /\ trace.ledger = Ok /\ trace.mirror = "failed")
    => /\ response.success
       /\ response.status = 200
       /\ response.docHash = hashDocumentForBlockchain(trace.file)
       /\ response.ipfsCID = LedgerRecord(trace.file).ipfsCID
       /\ response.transactionHash = TransactionHash(signer, toBytes32(response.docHash))
       /\ response.issuer = signer

\* C18: when USE_IPFS is set and the client exists, uploadToIPFS calls the
\* remote store first; when that call fails it calls the local store once
\* and returns the local file name, and it throws only when the local save
\* throws; the blobs the remote store held are still there.
C18_StoreFallback ==
    (response.route = "issue" /\ trace.calls # << >>)
    => LET calls == trace.calls
           last  == calls[Len(calls)]
       IN
       /\ trace.remote \subseteq ipfsStorage
       /\ calls[1].to = "remote" <=> (USE_IPFS /\ ipfsClient)
       /\ calls[1] = [to |-> "remote", ok |-> FALSE]
          => /\ Len(calls) = 2
             /\ calls[2].to = "local"
             /\ ipfsStorage = trace.remote
             /\ calls[2].ok
                => /\ startsWith(trace.path, "local-")
                   /\ StoredBlobs(trace.path) # {}
                   /\ trace.ledger # NoValue
       /\ calls[1] # [to |-> "remote", ok |-> FALSE] => Len(calls) = 1
       /\ trace.ledger = NoValue <=> (last.to = "local" /\ ~last.ok)
       /\ trace.ledger = NoValue
          => /\ response = ErrorResponse("issue", 500, "Failed to issue certificate")
             /\ trace.path = EmptyString

\* the remote store, which holds a blob of an earlier request, failed and
\* the local store took the blob
C18_Witness ==
    /\ response.route = "issue"
    /\ trace.calls = <<[to |-> "remote", ok |-> FALSE], [to |-> "local", ok |-> TRUE]>>
    /\ trace.remote # {}
    /\ startsWith(trace.path, "local-")

\* the ledger record under the docHash of an audit row
RecordOfRow(row) == certificates[toBytes32(row.docHash)]

\* every row of the audit log has its ledger record, and a record has one row
RowsMatchRecords ==
    \A i \in DOMAIN transactions :
        /\ RecordOfRow(transactions[i]).exists
        /\ RecordOfRow(transactions[i]).ipfsCID = transactions[i].ipfsCID
        /\ RecordOfRow(transactions[i]).issuer = transactions[i].issuer
        /\ \A j \in DOMAIN transactions :
               transactions[j].docHash = transactions[i].docHash => j = i

\* a step keeps every row, changing at most its status, and a row it adds is
\* the row of a record that the ledger holds after the step
RowsKept ==
    /\ Len(transactions') >= Len(transactions)
    /\ \A i \in DOMAIN transactions :
           [transactions'[i] EXCEPT !.status = transactions[i].status] = transactions[i]
    /\ \A i \in DOMAIN transactions' \ DOMAIN transactions :
           /\ certificates'[toBytes32(transactions'[i].docHash)].exists
           /\ transactions'[i].status = "confirmed"

\* C20: in every reachable state each row of the audit log is the row of
\* one ledger record (the record exists, and its docHash, CID and issuer are
\* the row's) and no record has two rows; a row is added only with its
\* ledger write confirmed, and no step changes a row except in its status.
C20_AuditEntries == [](RowsMatchRecords) /\ [][RowsKept]_vars

\* two rows, for two records, one of them with its status changed since
C20_Witness ==
    /\ Len(transactions) = 2
    /\ transactions[1].status = "pending"
    /\ transactions[2].status = "confirmed"
    /\ RowsMatchRecords

\* ======================================================================
\* Properties of requests that run side by side, checked under RaceSpec.
\* ======================================================================
\* the requests for the file that have got as far as the set of awaits
RequestsOf(file) == {r \in Requests : inflight[r].file = file}

Executed(file) == {r \in RequestsOf(file) : inflight[r].mined # NoValue}

Winners(file) == {r \in RequestsOf(file) : inflight[r].mined = Ok}

\* C19: of the POST /issue requests for one file, however their steps
\* interleave, at most one has its ledger write succeed, and exactly one as
\* soon as the contract has executed the write of any of them, the others
\* being refused with "Certificate already exists"; the ledger has a record
\* for the file's fingerprint exactly then, with the CID that this request
\* stored and the signer as issuer; only this request can answer with the
\* success receipt, and the audit log has at most one row for the
\* fingerprint, with this request's CID.
C19_ConcurrentIssuance ==
    \A file \in Files :
        LET docHash == hashDocumentForBlockchain(file)
            cert    == certificates[toBytes32(docHash)]
            rows    == {i \in DOMAIN transactions : transactions[i].docHash = docHash}
        IN
        /\ Cardinality(Winners(file)) <= 1
        /\ Executed(file) # {} => Cardinality(Winners(file)) = 1
        /\ \A r \in Executed(file) \ Winners(file) : inflight[r].mined = ErrAlreadyExists
        /\ cert.exists <=> Winners(file) # {}
        /\ \A r \in Winners(file) : /\ cert.ipfsCID = inflight[r].ipfsCID
                                     /\ cert.issuer = signer
        /\ \A r \in RequestsOf(file) : inflight[r].response.success => r \in Winners(file)
        /\ Cardinality(rows) <= 1
        /\ \A i \in rows : \E r \in Winners(file) :
               /\ transactions[i].ipfsCID = inflight[r].ipfsCID
               /\ inflight[r].response.success

\* two requests for the same file have both ended, each with a blob of its
\* own stored; the one that stored its blob last won the ledger write and
\* answered with the receipt, the other was refused by the contract
C19_Witness ==
    \E r1, r2 \in Requests :
        /\ r1 # r2
        /\ inflight[r1].file = inflight[r2].file
        /\ inflight[r1].pc = "done"
        /\ inflight[r2].pc = "done"
        /\ startsWith(inflight[r1].ipfsCID, "Qm")
        /\ startsWith(inflight[r2].ipfsCID, "local-")
        /\ inflight[r1].mined = ErrAlreadyExists
        /\ inflight[r2].response.success
        /\ Len(transactions) = 1

\* ======================================================================
\* More properties of the backend, checked under Spec.
\* ======================================================================
\* the rows of the audit log for the docHash
RowsOf(h) == {i \in DOMAIN transactions : transactions[i].docHash = <<"0x", h>>}

\* a request for a file that has a record is refused by the ledger, and
\* ends before the insert
DuplicateEndsBeforeMirror ==
    (response.route = "issue" /\ trace.ledger = ErrAlreadyExists)
    => /\ response = ErrorResponse("issue", 500, "Failed to issue certificate")
       /\ trace.mirror = NoValue
       /\ LedgerRecord(trace.file).exists

\* a step keeps every record, and gives no row to a record that was there
\* without one
GapStays ==
    \A h \in Hash :
        certificates[h].exists
        => /\ certificates'[h] = certificates[h]
           /\ RowsOf(h) = {} => (RowsOf(h))' = {}

\* C21: a ledger record whose audit row was not written (the process ended
\* or the insert failed between the confirmed ledger write and the insert)
\* stays, and no later step writes the row: a row is written only in the
\* request that wrote the record, and a request for the same file is
\* refused by the ledger as a duplicate before it reaches the insert.
C21_MirrorGapStays == [](DuplicateEndsBeforeMirror) /\ [][GapStays]_vars

\* the backend wrote a record (its blob is in the store), the record has no
\* row, and the same file submitted again has been refused as a duplicate
C21_Witness ==
    /\ response.route = "issue"
    /\ trace.ledger = ErrAlreadyExists
    /\ LedgerRecord(trace.file).issuer = signer
    /\ StoredBlobs(LedgerRecord(trace.file).ipfsCID) # {}
    /\ RowsOf(toBytes32(hashDocumentForBlockchain(trace.file))) = {}

\* a step that is a POST /issue whose handler got as far as the ledger call
IssueReachedLedger ==
    /\ response = NoResponse
    /\ response'.route = "issue"
    /\ trace'.path # EmptyString

\* the contract refuses the write of the file with the CID, or there is no
\* signer to make it
LedgerRefuses(file, cid) ==
    \/ signer = Null
    \/ issueCertificateRevert(signer, toBytes32(hashDocumentForBlockchain(file)), cid) # Ok

IssueFailure == ErrorResponse("issue", 500, "Failed to issue certificate")

\* C22: when the ledger write of POST /issue fails (the signer is not an
\* authorized issuer, the docHash has a record, no signer is configured, the
\* RPC fails or the receipt is not got), the request answers 500 "Failed to
\* issue certificate" without a receipt, and no row is written to the audit
\* log.
C22_LedgerErrorsPropagate ==
    [][(IssueReachedLedger /\ (LedgerRefuses(trace'.file, trace'.path) \/ trace'.ledger # Ok))
       => /\ response' = IssueFailure
          /\ ~response'.success
          /\ response'.transactionHash = EmptyString
          /\ trace'.ledger # Ok
          /\ trace'.mirror = NoValue
          /\ transactions' = transactions
          /\ receipts' = receipts]_vars

\* the signer is an account that is not an authorized issuer: the request
\* has failed at the ledger, its blob stored, the audit log as it was
C22_Witness ==
    /\ response = IssueFailure
    /\ trace.ledger = ErrNotAuthorizedIssuer
    /\ signer # Null
    /\ StoredBlobs(trace.path) # {}
    /\ Len(transactions) = 1

\* the metadata of the body lacks a required field
InvalidMetadata(b) ==
    \E k \in {"studentName", "courseName", "institution"} :
        k \notin DOMAIN Bodies[b] \/ Bodies[b][k] = EmptyString

\* the answer to a request with invalid metadata is a rejection: the one
\* for the metadata when the ledger connection is up and a file was given
InvalidMetadataRejected ==
    (response.route = "issue" /\ trace.body # NoBody /\ InvalidMetadata(trace.body))
    => /\ response.status \in {400, 503}
       /\ ~response.success
       /\ trace.calls = << >>
       /\ trace.ledger = NoValue
       /\ trace.mirror = NoValue
       /\ (web3Ready /\ trace.file # NoFile)
          => response = ErrorResponse("issue", 400, "Missing required metadata fields")

\* the step of a request with invalid metadata changes no store and no
\* ledger state
InvalidMetadataNoEffect ==
    (/\ response = NoResponse
     /\ response'.route = "issue"
     /\ trace'.body # NoBody
     /\ InvalidMetadata(trace'.body))
    => UNCHANGED <<contractVars, blockTimestamp, storeVars, receipts>>

\* C23: a POST /issue whose studentName, courseName or institution is
\* missing or empty is rejected (400 "Missing required metadata fields"
\* when the ledger connection is up and a file was given) before anything
\* else is done: no blob is stored, no ledger write is made, no row is
\* written.
C23_ValidationFirst == [](InvalidMetadataRejected) /\ [][InvalidMetadataNoEffect]_vars

\* a request with a file and an empty institution was rejected, the stores
\* holding what earlier requests left
C23_Witness ==
    /\ response = ErrorResponse("issue", 400, "Missing required metadata fields")
    /\ trace.file # NoFile
    /\ "institution" \in DOMAIN Bodies[trace.body]
    /\ Bodies[trace.body]["institution"] = EmptyString
    /\ ipfsStorage # {}
    /\ Len(transactions) = 1

\* the request's blob is in the store under the reference uploadToIPFS gave
BlobKept ==
    (response.route = "issue" /\ trace.path # EmptyString)
    => \E d \in StoredBlobs(trace.path) :
           decryptMetadata(d["encrypted"], d["iv"], AES_ENCRYPTION_KEY)
               = {ExtractMetadata(Bodies[trace.body])}

\* the step of a request that got as far as the ledger call adds the
\* request's blob to one store and removes nothing, whatever the ledger
\* does; when the contract refuses the write, the ledger is as it was
BlobAdded ==
    IssueReachedLedger
    => /\ \/ /\ startsWith(trace'.path, "local-")
             /\ Len(localStorage') = Len(localStorage) + 1
             /\ SubSeq(localStorage', 1, Len(localStorage)) = localStorage
             /\ ipfsStorage' = ipfsStorage
          \/ /\ ~startsWith(trace'.path, "local-")
             /\ localStorage' = localStorage
             /\ ipfsStorage \subseteq ipfsStorage'
             /\ Cardinality(ipfsStorage' \ ipfsStorage) <= 1
       /\ LedgerRefuses(trace'.file, trace'.path)
          => /\ certificates' = certificates
             /\ response' = IssueFailure
             /\ startsWith(trace'.path, "local-")
                => \A h \in Hash : certificates'[h].ipfsCID # trace'.path

IsRead == response = NoResponse /\ response'.route \in {"verify", "cert"}

\* C29: a POST /verify and a GET /cert/:hash, whatever they answer (valid,
\* not found, metadata not fetched, error), leave the ledger's records and
\* authorized issuers, the blob stores and the audit log as they were, so
\* that the same request in the same conditions gets the same answer again.
C29_VerifyReadOnly ==
    [][IsRead
       => /\ UNCHANGED <<contractVars, blockTimestamp, storeVars, processVars, receipts>>
          /\ response'.route = "verify"
             => \E file \in {NoFile} \cup Files, rpcUp \in BOOLEAN, remoteUp \in BOOLEAN,
                   localUp \in BOOLEAN :
                    /\ file = trace'.file
                    /\ response' = verifyResponse(file, rpcUp, remoteUp, localUp)
                    /\ response' = verifyResponse(file, rpcUp, remoteUp, localUp)'
          /\ response'.route = "cert"
             => \E hash \in HashParams, rpcUp \in BOOLEAN, remoteUp \in BOOLEAN,
                   localUp \in BOOLEAN :
                    /\ response' = getCertResponse(hash, rpcUp, remoteUp, localUp)
                    /\ response' = getCertResponse(hash, rpcUp, remoteUp, localUp)']_vars

\* a verification found the record of a certificate that has its row in
\* the audit log, and could not fetch the metadata
C29_Witness ==
    /\ response.route = "verify"
    /\ response.valid
    /\ trace.fetch = "failed"
    /\ RowsOf(toBytes32(hashDocumentForBlockchain(trace.file))) # {}
    /\ ipfsStorage # {}

\* the references uploadToIPFS has returned to a request and that name a
\* blob: the one of the request in hand, and those in the ledger's records
StoredRefs ==
    {c \in {trace.path} \cup {certificates[h].ipfsCID : h \in Hash} : StoredBlobs(c) # {}}

\* the backend that holds the blob of the reference answers
HolderUp(cid, remoteUp, localUp) == IF startsWith(cid, "local-") THEN localUp ELSE remoteUp

\* C30 as stated: every reference that uploadToIPFS returned is fetched
\* whenever the backend that holds its blob is reachable.
C30_Original ==
    \A cid \in StoredRefs, remoteUp \in BOOLEAN, localUp \in BOOLEAN :
        HolderUp(cid, remoteUp, localUp) => retrieveFromIPFS(cid, remoteUp, localUp) # {}

\* C30 amended: retrieveFromIPFS reads a reference from one backend and
\* from no other: a 'local-' reference from the local directory, whatever
\* the remote backend's configuration and state; any other reference from
\* the remote backend when it is enabled (USE_IPFS and the client exists),
\* failing when the remote backend fails, the local one being up or not;
\* and any other reference from the local directory, where it is not
\* found, when the remote backend is not enabled.  So a reference that
\* uploadToIPFS returned is fetched while the backend that holds it is
\* reachable, provided that, for a remote reference, the remote backend is
\* enabled in the process that fetches.
C30_FetchRouting ==
    \A cid \in StoredRefs, remoteUp \in BOOLEAN, localUp \in BOOLEAN :
        LET fetched == retrieveFromIPFS(cid, remoteUp, localUp) IN
        /\ startsWith(cid, "local-")
           => fetched = IF localUp THEN StoredBlobs(cid) ELSE {}
        /\ (~startsWith(cid, "local-") /\ USE_IPFS /\ ipfsClient)
           => fetched = IF remoteUp THEN StoredBlobs(cid) ELSE {}
        /\ (~startsWith(cid, "local-") /\ ~(USE_IPFS /\ ipfsClient))
           => fetched = {}
        /\ (/\ HolderUp(cid, remoteUp, localUp)
            /\ startsWith(cid, "local-") \/ (USE_IPFS /\ ipfsClient))
           => fetched # {}

\* with the remote backend enabled, a record names a blob that the store
\* fallback put in the local directory and another record names a blob of
\* the remote store
C30_Witness ==
    /\ USE_IPFS /\ ipfsClient
    /\ \E c \in StoredRefs : startsWith(c, "local-")
    /\ \E c \in StoredRefs : ~startsWith(c, "local-")
    /\ \E h \in Hash : startsWith(certificates[h].ipfsCID, "local-")

====
